---------------------------- MODULE Spec2Model ----------------------------
(***************************************************************************)
(* Model of the procedural geometry synthesizer of the IFC importer        *)
(* (code/IFCGeometry.cpp): TempMesh bookkeeping, the Quadrify rectilinear  *)
(* subdivision, the opening pipeline GenerateOpenings with its fixed-point *)
(* bridge, linear extrusion and revolution.                                *)
(*                                                                         *)
(* Numbers.  A 2D coordinate of the projection space [0,1] is an integer   *)
(* of 0..One on a doubled scale: the even value 2k is the float k/GridN,   *)
(* the odd value 2k-1 is the float floor(k*S/GridN)/S that the fixed-point *)
(* round trip makes of it (just below k/GridN, S = max_ulong64).  Order    *)
(* and equality of floats are order and equality of these integers.        *)
(***************************************************************************)
EXTENDS Integers, Sequences, FiniteSets, TLC

VARIABLES
    mode,       \* which entry point this behaviour exercises
    pc,         \* position inside the entry point
    bbs,        \* Quadrify: the vector of bounding boxes handed in
    mesh,       \* the TempMesh being produced: [verts, vertcnt]
    wall,       \* GenerateOpenings: the openings of the wall and the last call
                \* [openings, side, check_intersection, generate_connection_geometry,
                \*  rejected, contours, contours_to_openings, path, ret, stages]
    solid       \* the entity a mesh is generated from, and the progress of it

vars == <<mode, pc, bbs, mesh, wall, solid>>

-----------------------------------------------------------------------------
(* Bounds of the model *)

\* grid lines per axis of the projection space: k/GridN, k = 0..GridN
GridN == 5
\* boxes handed to Quadrify
MaxBoxes == 3
\* openings applied to one wall
MaxOpenings == 3
\* side faces of the wall GenerateOpenings is called for
MaxSides == 2
\* openings that do not lie "ok" to the face of a call, over the calls of a wall
MaxRejected == 1
\* polyloops per face set
MaxLoops == 2
\* points per polyloop
MaxPolygon == 3
\* vertices of a revolved profile
MaxProfile == 3
\* items of one product
MaxItems == 2
\* faces of a connected face set
MaxFaces == 2

-----------------------------------------------------------------------------
(* Floats and the fixed-point bridge *)

max_ulong64 == 1518500249

\* the float 1.0 (one_vec is (One, One))
One == 2 * GridN

Coords == 0..One
\* the floats k/GridN themselves
RawCoords == {2 * k : k \in 0..GridN}

Min2(a, b) == IF a < b THEN a ELSE b
Max2(a, b) == IF a > b THEN a ELSE b

\* IfcVector2 as <<x, y>>, BoundingBox as [first, second]
BoundingBox(lo, hi) == [first |-> lo, second |-> hi]

EmptyMesh == [verts |-> <<>>, vertcnt |-> <<>>]

SetMin(S) == CHOOSE x \in S : \A y \in S : x <= y
SetMax(S) == CHOOSE x \in S : \A y \in S : x >= y

\* a sequence given by a formula, computed once
Tuple(f) == f \o <<>>

\* the sum of s[lo..hi], by halves
RECURSIVE SumFrom(_, _, _)
SumFrom(s, lo, hi) ==
    IF lo > hi THEN 0
    ELSE IF lo = hi THEN s[lo]
    ELSE SumFrom(s, lo, (lo + hi) \div 2) + SumFrom(s, ((lo + hi) \div 2) + 1, hi)

SumSeq(s) == SumFrom(s, 1, Len(s))

\* floor(k * max_ulong64 / GridN): the 64-bit integer of the float k/GridN
FixedOf(k) ==
    k * (max_ulong64 \div GridN) + (k * (max_ulong64 % GridN)) \div GridN

\* to_int64(p) = static_cast<ulong64>(p * max_ulong64): the cast truncates.  The
\* float 2k is k/GridN, the float 2k-1 is FixedOf(k)/max_ulong64: both give FixedOf(k).
to_int64(v) == FixedOf((v + 1) \div 2)

\* the grid line k an integer FixedOf(k) of the fixed-point space came from
GridIndex(i) == i \div (max_ulong64 \div GridN)

\* from_int64(p) = p / max_ulong64: the float k/GridN again only when
\* k * max_ulong64 is a multiple of GridN, else the float just below it
from_int64(i) ==
    LET k == GridIndex(i)
    IN  IF (k * (max_ulong64 % GridN)) % GridN = 0 THEN 2 * k ELSE 2 * k - 1

IntPoint(v) == <<to_int64(v[1]), to_int64(v[2])>>

\* a list of floats as a ClipperLib::Polygon
ToClipper(contour) == Tuple([i \in 1..Len(contour) |-> IntPoint(contour[i])])

\* distances below the epsilons of the code (1e-5 and smaller) are those between
\* the two floats of one grid line
GridLine(v) == (v + 1) \div 2
SameGridLine(a, b) == GridLine(a) = GridLine(b)

-----------------------------------------------------------------------------
(* ClipperLib (contrib/clipper), modelled from its interface: polygons are    *)
(* lists of IntPoints on the lines FixedOf(0..GridN), a polygon covers the    *)
(* grid cells whose centre has a non-zero winding number, a boolean operation *)
(* is the set operation on cells, and its result is one ExPolygon per         *)
(* edge-connected component, each with the outline of the component as outer. *)

\* twice the signed crossing of edge p -> q (grid indices) with the ray from the
\* centre of cell c to the right: +1 upward, -1 downward, 0 none
EdgeWinding(p, q, c) ==
    LET up   == p[2] <= c[2] /\ c[2] < q[2]
        down == q[2] <= c[2] /\ c[2] < p[2]
        lhs  == 2 * p[1] * (q[2] - p[2]) + (2 * c[2] + 1 - 2 * p[2]) * (q[1] - p[1])
        rhs  == (2 * c[1] + 1) * (q[2] - p[2])
    IN  IF up /\ lhs > rhs THEN 1
        ELSE IF down /\ lhs < rhs THEN -1
        ELSE 0

RECURSIVE WindingSum(_, _, _)
WindingSum(idx, c, e) ==
    IF e = 0 THEN 0
    ELSE EdgeWinding(idx[e], idx[(e % Len(idx)) + 1], c) + WindingSum(idx, c, e - 1)

\* the cells a polygon covers under the non-zero fill rule
Indices(poly) == Tuple([i \in 1..Len(poly) |-> <<GridIndex(poly[i][1]), GridIndex(poly[i][2])>>])

Covers(idx, c) == WindingSum(idx, c, Len(idx)) # 0

CellsOf(idx, xs, ys) ==
    IF idx = <<>> THEN {}
    ELSE {c \in (SetMin(xs)..(SetMax(xs) - 1)) \X (SetMin(ys)..(SetMax(ys) - 1)) : Covers(idx, c)}

Column(idx, a) == {idx[i][a] : i \in 1..Len(idx)}

CellsOfIndices(idx) == CellsOf(idx, Column(idx, 1), Column(idx, 2))

PolyCells(poly) == CellsOfIndices(Indices(poly))

CellNeighbours(c) ==
    {<<c[1] + 1, c[2]>>, <<c[1] - 1, c[2]>>, <<c[1], c[2] + 1>>, <<c[1], c[2] - 1>>}

RECURSIVE Flood(_, _)
Flood(seen, cells) ==
    LET more == {c \in cells \ seen : CellNeighbours(c) \cap seen # {}}
    IN  IF more = {} THEN seen ELSE Flood(seen \cup more, cells)

\* the lowest, then leftmost cell
FirstCell(cells) ==
    CHOOSE c \in cells : \A o \in cells : c[2] < o[2] \/ (c[2] = o[2] /\ c[1] <= o[1])

RECURSIVE Components(_)
RECURSIVE SplitOff(_, _)
Components(cells) ==
    IF cells = {} THEN <<>>
    ELSE SplitOff(Flood({FirstCell(cells)}, cells), cells)

SplitOff(comp, cells) == <<comp>> \o Components(cells \ comp)

\* the unit boundary edges of a set of cells, the cells on their left
BoundaryEdges(cells) ==
    UNION {
        (IF <<c[1], c[2] - 1>> \notin cells THEN {<< <<c[1], c[2]>>, <<c[1] + 1, c[2]>> >>} ELSE {})
        \cup (IF <<c[1] + 1, c[2]>> \notin cells THEN {<< <<c[1] + 1, c[2]>>, <<c[1] + 1, c[2] + 1>> >>} ELSE {})
        \cup (IF <<c[1], c[2] + 1>> \notin cells THEN {<< <<c[1] + 1, c[2] + 1>>, <<c[1], c[2] + 1>> >>} ELSE {})
        \cup (IF <<c[1] - 1, c[2]>> \notin cells THEN {<< <<c[1], c[2] + 1>>, <<c[1], c[2]>> >>} ELSE {})
        : c \in cells }

EdgeDir(e) == <<e[2][1] - e[1][1], e[2][2] - e[1][2]>>

\* the edge that continues the outer boundary after edge e: where two leave the
\* same corner, the right turn
NextEdge(e, edges) ==
    LET cand  == {n \in edges : n[1] = e[2]}
        d     == EdgeDir(e)
        right == <<d[2], -d[1]>>
    IN  IF \E n \in cand : EdgeDir(n) = right
        THEN CHOOSE n \in cand : EdgeDir(n) = right
        ELSE IF \E n \in cand : EdgeDir(n) = d
        THEN CHOOSE n \in cand : EdgeDir(n) = d
        ELSE CHOOSE n \in cand : TRUE

\* the boundary from edge e on until it is back at edge start; n is the edge
\* after e, and the corner between them is a vertex when the direction changes
RECURSIVE TraceOutline(_, _, _, _, _)
TraceOutline(n, e, start, edges, acc) ==
    IF n = start
    THEN (IF EdgeDir(n) # EdgeDir(e) THEN Append(acc, e[2]) ELSE acc)
    ELSE TraceOutline(NextEdge(n, edges), n, start, edges,
                      IF EdgeDir(n) # EdgeDir(e) THEN Append(acc, e[2]) ELSE acc)

\* the outer contour of an edge-connected set of cells, as IntPoints,
\* counter-clockwise
FixedPoints(idx) == Tuple([i \in 1..Len(idx) |-> <<FixedOf(idx[i][1]), FixedOf(idx[i][2])>>])

BottomEdge(c) == << <<c[1], c[2]>>, <<c[1] + 1, c[2]>> >>

OutlineFrom(start, edges) == FixedPoints(TraceOutline(NextEdge(start, edges), start, start, edges, <<>>))

Outline(comp) == OutlineFrom(BottomEdge(FirstCell(comp)), BoundaryEdges(comp))

\* the ExPolygons of a set of cells (the holes are nothing the caller reads)
ExPolygonsOf(comps) ==
    Tuple([i \in 1..Len(comps) |-> [outer |-> Outline(comps[i]), cells |-> comps[i]]])

ExPolygons(cells) == ExPolygonsOf(Components(cells))

ClipperUnion(a, b) == ExPolygons(PolyCells(a) \cup PolyCells(b))
Uncovered(cells, idx) == {c \in cells : ~Covers(idx, c)}
Covered(cells, idx) == {c \in cells : Covers(idx, c)}

ClipperDifference(subject, clip) == ExPolygons(Uncovered(PolyCells(subject), Indices(clip)))
ClipperIntersection(subject, clip) == ExPolygons(Covered(PolyCells(subject), Indices(clip)))

-----------------------------------------------------------------------------
(* Geometry of meshes of axis-aligned faces, used to state the claims *)

\* first vertex index of face f of mesh m (1-based), minus one
RECURSIVE FaceBase(_, _)
FaceBase(m, f) == IF f = 1 THEN 0 ELSE FaceBase(m, f - 1) + m.vertcnt[f - 1]

FaceVerts(m, f) == SubSeq(m.verts, FaceBase(m, f) + 1, FaceBase(m, f) + m.vertcnt[f])

\* the axis-aligned extent of a non-empty list of points in x and y
Extent(pts) ==
    BoundingBox(<<SetMin({pts[i][1] : i \in 1..Len(pts)}), SetMin({pts[i][2] : i \in 1..Len(pts)})>>,
                <<SetMax({pts[i][1] : i \in 1..Len(pts)}), SetMax({pts[i][2] : i \in 1..Len(pts)})>>)

\* the cell [cx, cx+1] x [cy, cy+1] of the doubled scale lies in the box
CellInBox(bb, cx, cy) ==
    /\ bb.first[1] <= cx /\ cx + 1 <= bb.second[1]
    /\ bb.first[2] <= cy /\ cy + 1 <= bb.second[2]

Cells == (0..(One - 1)) \X (0..(One - 1))

QuadsCovering(m, c) ==
    {f \in 1..Len(m.vertcnt) : CellInBox(Extent(FaceVerts(m, f)), c[1], c[2])}

-----------------------------------------------------------------------------
(* Quadrify *)

\* XYSorter: sort first by X coordinates, then by Y coordinates
XYLess(a, b) == IF a[1] = b[1] THEN a[2] < b[2] ELSE a[1] < b[1]

\* The XYSortedField of Quadrify: the map from a box's first corner to its
\* index, a later box replacing an earlier one with the same corner, read in
\* key order.  The result is the sequence of indices in iteration order.
RECURSIVE SortKeys(_, _)
SortKeys(keys, b) ==
    IF keys = {} THEN <<>>
    ELSE LET k == CHOOSE k \in keys : \A o \in keys \ {k} : XYLess(b[k].first, b[o].first)
         IN  <<k>> \o SortKeys(keys \ {k}, b)

\* mutant: the field keeps the boxes in insertion order
XYSortedField_Unsorted(b) ==
    [i \in 1..Len(b) |-> i]

XYSortedField(b) ==
    SortKeys({i \in 1..Len(b) : \A j \in (i+1)..Len(b) : b[j].first # b[i].first}, b)

Quad(x0, y0, x1, y1) == << <<x0, y0>>, <<x0, y1>>, <<x1, y1>>, <<x1, y0>> >>

\* mutant: xe is not cut at the right border of the rectangle
XEnd_Unclamped(pmax, xe) == xe

\* xe = std::min(pmax.x, xe)
XEnd(pmax, xe) == Min2(pmax[1], xe)

\* what a call of QuadrifyPart leaves: the vertices pushed to out, and the
\* recursive calls made below it, each as << <<pmin, pmax>> of the caller,
\* <<pmin, pmax>> of the call >>
NoRun == [out |-> <<>>, calls |-> <<>>]

Called(caller, pmin, pmax, run) ==
    [out |-> run.out, calls |-> << <<caller, <<pmin, pmax>> >> >> \o run.calls]

Then(first, second) == [out |-> first.out \o second.out, calls |-> first.calls \o second.calls]

RECURSIVE QuadrifyPartRun(_, _, _, _)
RECURSIVE QuadrifyYLoop(_, _, _, _)

\* The second loop of QuadrifyPart: from field position t on, walking down the
\* y axis.  st = [ylast, found, run]; c = [pmin, pmax, xs, xe, field, bbs].
QuadrifyYLoop(t, st, c, dummy) ==
    IF t > Len(c.field) THEN st
    ELSE LET bb == c.bbs[c.field[t]] IN
         IF bb.first[1] > c.xs \/ bb.first[2] >= c.pmax[2] THEN st
         ELSE IF bb.second[2] > st.ylast
              THEN LET ys == Max2(bb.first[2], c.pmin[2])
                       ye == Min2(bb.second[2], c.pmax[2])
                       sub == IF ys - st.ylast > 0
                              THEN Called(<<c.pmin, c.pmax>>, <<c.xs, st.ylast>>, <<c.xe, ys>>,
                                          QuadrifyPartRun(<<c.xs, st.ylast>>, <<c.xe, ys>>,
                                                          c.field, c.bbs))
                              ELSE NoRun
                   IN  QuadrifyYLoop(t + 1,
                           [ylast |-> ye, found |-> TRUE, run |-> Then(st.run, sub)], c, dummy)
              ELSE QuadrifyYLoop(t + 1, st, c, dummy)

QuadrifyPartRun(pmin, pmax, field, b) ==
    IF pmin[1] - pmax[1] = 0 \/ pmin[2] - pmax[2] = 0 THEN NoRun
    ELSE
    LET \* search along the x-axis until we find an opening
        stops == {t \in 1..Len(field) :
                    \/ b[field[t]].first[1] >= pmax[1]
                    \/ /\ b[field[t]].second[1] > pmin[1]
                       /\ b[field[t]].second[2] > pmin[2]
                       /\ b[field[t]].first[2] < pmax[2]}
        start == IF stops = {} THEN Len(field) + 1
                 ELSE CHOOSE t \in stops : \A o \in stops : t <= o
        found == start <= Len(field) /\ b[field[start]].first[1] < pmax[1]
    IN
    IF ~found THEN [out |-> Quad(pmin[1], pmin[2], pmax[1], pmax[2]), calls |-> <<>>]
    ELSE
    LET xs == Max2(pmin[1], b[field[start]].first[1])
        xe == XEnd(pmax, b[field[start]].second[1])
        left == IF xs - pmin[1] # 0 THEN Quad(pmin[1], pmin[2], xs, pmax[2]) ELSE <<>>
        c == [pmin |-> pmin, pmax |-> pmax, xs |-> xs, xe |-> xe,
              field |-> field, bbs |-> b]
        yl == QuadrifyYLoop(start, [ylast |-> pmin[2], found |-> FALSE,
                                    run |-> [out |-> left, calls |-> <<>>]], c, 0)
    IN
    IF ~yl.found THEN [out |-> yl.run.out \o Quad(xs, pmin[2], xe, pmax[2]), calls |-> yl.run.calls]
    ELSE
    LET below == IF yl.ylast < pmax[2]
                 THEN Called(<<pmin, pmax>>, <<xs, yl.ylast>>, <<xe, pmax[2]>>,
                             QuadrifyPartRun(<<xs, yl.ylast>>, <<xe, pmax[2]>>, field, b))
                 ELSE NoRun
        rest == IF pmax[1] - xe # 0
                THEN Called(<<pmin, pmax>>, <<xe, pmin[2]>>, pmax,
                            QuadrifyPartRun(<<xe, pmin[2]>>, pmax, field, b))
                ELSE NoRun
    IN  Then(yl.run, Then(below, rest))

\* QuadrifyPart(pmin, pmax, field, bbs, out): the vertices pushed to out
QuadrifyPart(pmin, pmax, field, b) == QuadrifyPartRun(pmin, pmax, field, b).out

\* Quadrify(bbs, curmesh): the quads as a mesh of 4-vertex faces, z = 0
QuadrifyBoxes(b) ==
    LET quads == QuadrifyPart(<<0, 0>>, <<One, One>>, XYSortedField(b), b)
    IN  [verts   |-> Tuple([i \in 1..Len(quads) |-> <<quads[i][1], quads[i][2], 0>>]),
         vertcnt |-> Tuple([i \in 1..(Len(quads) \div 4) |-> 4])]

-----------------------------------------------------------------------------
(* The opening pipeline: contours and their bounding boxes *)

\* count the '=' case as non-overlapping but as adjacent to each other
BoundingBoxesOverlapping(ibb, bb) ==
    /\ ibb.first[1] < bb.second[1] /\ ibb.second[1] > bb.first[1]
    /\ ibb.first[2] < bb.second[2] /\ ibb.second[2] > bb.first[2]

\* (cp-vv).SquareLength() < 1e-5f for some cp of temp_contour
IsDuplicateVertex(vv, temp_contour) ==
    \E i \in 1..Len(temp_contour) :
        SameGridLine(temp_contour[i][1], vv[1]) /\ SameGridLine(temp_contour[i][2], vv[2])

\* sanity rounding: std::max(vv, IfcVector2()), std::min(vv, one_vec)
Clamp01(v) == <<Max2(0, Min2(One, v[1])), Max2(0, Min2(One, v[2]))>>

RECURSIVE ExtractFrom(_, _, _, _)
ExtractFrom(poly, i, filter_duplicates, temp_contour) ==
    IF i > Len(poly) THEN temp_contour
    ELSE LET vv == Clamp01(<<from_int64(poly[i][1]), from_int64(poly[i][2])>>)
         IN  ExtractFrom(poly, i + 1, filter_duplicates,
                 IF ~filter_duplicates \/ ~IsDuplicateVertex(vv, temp_contour)
                 THEN Append(temp_contour, vv) ELSE temp_contour)

ExtractVerticesFromClipper(poly, filter_duplicates) ==
    ExtractFrom(poly, 1, filter_duplicates, <<>>)

GetBoundingBox(poly) ==
    Extent(Tuple([i \in 1..Len(poly) |-> Clamp01(<<from_int64(poly[i][1]), from_int64(poly[i][2])>>)]))

\* Subtract a from b
MakeDisjunctWindowContours(a, b) == ClipperDifference(ToClipper(b), ToClipper(a))

\* mutant: the difference instead of the union
MergeWindowContours_Difference(a, b) == MakeDisjunctWindowContours(a, b)

MergeWindowContours(a, b) == ClipperUnion(ToClipper(a), ToClipper(b))

ProjectedWindowContour(contour, bb) == [contour |-> contour, bb |-> bb]

RemoveAt(s, i) == SubSeq(s, 1, i - 1) \o SubSeq(s, i + 1, Len(s))

\* fabs(vpmax.x - vpmin.x) * fabs(vpmax.y - vpmin.y) < 1e-5: an extent between
\* the two floats of one grid line is below every epsilon, one of a grid step is not
AreaBelowGate(bb) ==
    (GridLine(bb.second[1]) - GridLine(bb.first[1]))
        * (GridLine(bb.second[2]) - GridLine(bb.first[2])) = 0

\* mutant: the openings of the erased contour are not taken over
Joined_Alone(gen, joined_openings, t) == joined_openings

\* joined_openings.insert(joined_openings.end(), t.begin(), t.end()), when the
\* connection geometry is asked for
Joined(gen, joined_openings, t) == IF gen THEN joined_openings \o t ELSE joined_openings

\* The scan of the accepted contours for one new contour (GenerateOpenings, the
\* inner for loop).  st = [temp_contour, bb, joined, contours, c2o, exit]; gen is
\* generate_connection_geometry.  exit: "end" the scan ran to its end, "dup" it
\* left by break, "poly2tri" it returned through the fallback.
RECURSIVE ScanContours(_, _, _)
RECURSIVE ScanOverlapping(_, _, _, _)
RECURSIVE ScanMerged(_, _, _, _)
ScanContours(it, st, gen) ==
    IF it > Len(st.contours) THEN st
    ELSE IF ~BoundingBoxesOverlapping(st.contours[it].bb, st.bb) THEN ScanContours(it + 1, st, gen)
    ELSE ScanOverlapping(it, st, gen,
             MakeDisjunctWindowContours(st.contours[it].contour, st.temp_contour))

\* the bounding boxes overlap: diff is the new contour less the accepted one
ScanOverlapping(it, st, gen, diff) ==
    IF Len(diff) = 1 /\ ~BoundingBoxesOverlapping(st.contours[it].bb, GetBoundingBox(diff[1].outer))
    THEN \* Good guy bounding box
         ScanContours(it, [st EXCEPT !.bb = GetBoundingBox(diff[1].outer),
                                     !.temp_contour = ExtractVerticesFromClipper(diff[1].outer, FALSE)],
                      gen)
    ELSE ScanMerged(it, st, gen, MergeWindowContours(st.temp_contour, st.contours[it].contour))

\* poly is the union of the new contour with the accepted one
ScanMerged(it, st, gen, poly) ==
    IF Len(poly) > 1 THEN [st EXCEPT !.exit = "poly2tri"]
    ELSE IF Len(poly) = 0 THEN [st EXCEPT !.temp_contour = <<>>, !.exit = "dup"]
    ELSE ScanContours(1,
            [st EXCEPT
                !.temp_contour = ExtractVerticesFromClipper(poly[1].outer, TRUE),
                !.bb = BoundingBox(<<Min2(st.bb.first[1], st.contours[it].bb.first[1]),
                                     Min2(st.bb.first[2], st.contours[it].bb.first[2])>>,
                                   <<Max2(st.bb.second[1], st.contours[it].bb.second[1]),
                                     Max2(st.bb.second[2], st.contours[it].bb.second[2])>>),
                !.joined = Joined(gen, st.joined, IF gen THEN st.c2o[it] ELSE <<>>),
                !.c2o = IF gen THEN RemoveAt(st.c2o, it) ELSE st.c2o,
                !.contours = RemoveAt(st.contours, it)],
            gen)

-----------------------------------------------------------------------------
(* The opening pipeline: from the accepted contours to the face mesh *)

Reverse(s) == Tuple([i \in 1..Len(s) |-> s[Len(s) + 1 - i]])

\* CleanupWindowContour: the contour is flagged invalid (cleared) when the
\* union of the contour with nothing comes out empty, and only then
CleanupWindowContour(window) ==
    IF Len(ExPolygons(PolyCells(ToClipper(window.contour)))) = 0
    THEN [window EXCEPT !.contour = <<>>]
    ELSE window

CleanupWindowContours(contours) ==
    Tuple([i \in 1..Len(contours) |-> CleanupWindowContour(contours[i])])

\* the perfect-fit test of InsertWindowContours: the four corners of the
\* bounding box are found, float for float, among the four contour vertices
\* mutant: no contour is taken for its bounding box, every one is walked
FitsItsBoundingBox_Never(contour, bb) == FALSE

FitsItsBoundingBox(contour, bb) ==
    /\ Len(contour) = 4
    /\ LET verts == {contour[n] : n \in 1..4}
       IN  /\ bb.first \in verts /\ bb.second \in verts
           /\ <<bb.first[1], bb.second[2]>> \in verts
           /\ <<bb.second[1], bb.first[2]>> \in verts

\* fabs(v - bb...) < epsilon with epsilon = diag/1000, one coordinate: the
\* bounding box value the coordinate sticks to, or the old value
SnapTo(v, lo, hi, old) ==
    IF SameGridLine(v, lo) THEN lo ELSE IF SameGridLine(v, hi) THEN hi ELSE old

HitsBorder(v, lo, hi) == SameGridLine(v, lo) \/ SameGridLine(v, hi)

\* (contour[a] - edge).SquareLength() > diag*diag*0.7, in grid steps
FarFromEdge(p, edge, bb) ==
    LET dx == GridLine(p[1]) - GridLine(edge[1])
        dy == GridLine(p[2]) - GridLine(edge[2])
        bx == GridLine(bb.second[1]) - GridLine(bb.first[1])
        by == GridLine(bb.second[2]) - GridLine(bb.first[2])
    IN  10 * (dx * dx + dy * dy) > 7 * (bx * bx + by * by)

\* The walk of InsertWindowContours along one contour.  n, last_hit and
\* very_first_hit are 1-based, 0 is the (size_t)-1 of the source;
\* w = [last_hit, very_first_hit, edge, mesh]
RECURSIVE WalkContour(_, _, _, _, _)
WalkContour(n, e, w, contour, bb) ==
    LET size == Len(contour)
        v    == contour[n]
        next == (n % size) + 1
        hit  == HitsBorder(v[1], bb.first[1], bb.second[1]) \/ HitsBorder(v[2], bb.first[2], bb.second[2])
        edge == <<SnapTo(v[1], bb.first[1], bb.second[1], w.edge[1]),
                  SnapTo(v[2], bb.first[2], bb.second[2], w.edge[2])>>
    IN
    IF e = size * 2 THEN w.mesh
    ELSE IF ~hit THEN WalkContour(next, e + 1, w, contour, bb)
    ELSE IF w.last_hit = 0
    THEN WalkContour(next, e + 1,
            [w EXCEPT !.edge = edge, !.very_first_hit = n, !.last_hit = n], contour, bb)
    ELSE
    LET cnt   == IF w.last_hit > n THEN size - (w.last_hit - n) ELSE n - w.last_hit
        span  == Tuple([k \in 1..(cnt + 1) |-> contour[((w.last_hit + k - 2) % size) + 1]])
        Near(p) == ~FarFromEdge(p, edge, bb)
        kept  == SelectSeq(span, Near)
        lastv == contour[w.last_hit]
        corner == <<SnapTo(lastv[1], bb.first[1], bb.second[1], edge[1]),
                    SnapTo(lastv[2], bb.first[2], bb.second[2], edge[2])>>
        added == IF edge # lastv THEN Append(kept, corner)
                 ELSE IF cnt = 1 THEN <<>>
                 ELSE kept
        face  == Reverse(Tuple([k \in 1..Len(added) |-> <<added[k][1], added[k][2], 0>>]))
        mesh2 == IF Len(added) > 0
                 THEN [verts |-> w.mesh.verts \o face, vertcnt |-> Append(w.mesh.vertcnt, Len(added))]
                 ELSE w.mesh
    IN
    IF n = w.very_first_hit THEN mesh2
    ELSE WalkContour(next, e + 1,
            [w EXCEPT !.edge = edge, !.last_hit = n, !.mesh = mesh2], contour, bb)

RECURSIVE InsertWindowContoursFrom(_, _, _)
InsertWindowContoursFrom(i, contours, curmesh) ==
    IF i > Len(contours) THEN curmesh
    ELSE IF contours[i].contour = <<>> \/ FitsItsBoundingBox(contours[i].contour, contours[i].bb)
    THEN InsertWindowContoursFrom(i + 1, contours, curmesh)
    ELSE InsertWindowContoursFrom(i + 1, contours,
            WalkContour(1, 0, [last_hit |-> 0, very_first_hit |-> 0, edge |-> <<0, 0>>, mesh |-> curmesh],
                        contours[i].contour, contours[i].bb))

InsertWindowContours(contours, curmesh) == InsertWindowContoursFrom(1, contours, curmesh)

\* the outer contours of ExPolygons as vertices of the plane z = 0, one after the other
RECURSIVE OuterVerts(_, _)
OuterVerts(clipped, i) ==
    IF i > Len(clipped) THEN <<>>
    ELSE Tuple([j \in 1..Len(clipped[i].outer) |->
                  <<from_int64(clipped[i].outer[j][1]), from_int64(clipped[i].outer[j][2]), 0>>])
         \o OuterVerts(clipped, i + 1)

\* the clipped face goes to the new vertex and face lists, the subject is cleared
ClippedFace(index, st, clipped) ==
    [index |-> index, countdown |-> 0, subject |-> <<>>,
     vold |-> st.vold \o OuterVerts(clipped, 1),
     iold |-> st.iold \o Tuple([i \in 1..Len(clipped) |-> Len(clipped[i].outer)])]

\* CleanupOuterContour: every face on its own is intersected with the outer
\* contour of the surface; st = [index, countdown, subject, vold, iold]
RECURSIVE CleanupOuterFrom(_, _, _, _)
CleanupOuterFrom(k, st, contour_flat, curmesh) ==
    IF k > Len(curmesh.verts) THEN [verts |-> st.vold, vertcnt |-> st.iold]
    ELSE
    LET fresh     == st.countdown = 0
        countdown == IF fresh THEN curmesh.vertcnt[st.index + 1] ELSE st.countdown
        index     == IF fresh THEN st.index + 1 ELSE st.index
    IN
    IF countdown = 0
    THEN CleanupOuterFrom(k + 1, [st EXCEPT !.index = index, !.countdown = 0], contour_flat, curmesh)
    ELSE
    LET subject == Append(st.subject, IntPoint(curmesh.verts[k]))
    IN
    IF countdown - 1 # 0
    THEN CleanupOuterFrom(k + 1,
            [st EXCEPT !.index = index, !.countdown = countdown - 1, !.subject = subject],
            contour_flat, curmesh)
    ELSE
    CleanupOuterFrom(k + 1,
        ClippedFace(index, st, ClipperIntersection(subject, ToClipper(contour_flat))),
        contour_flat, curmesh)

CleanupOuterContour(contour_flat, curmesh) ==
    CleanupOuterFrom(1, [index |-> 0, countdown |-> 0, subject |-> <<>>, vold |-> <<>>, iold |-> <<>>],
                     contour_flat, curmesh)

\* minv * IfcVector3(x, y, 0): the wall face lies in the plane z of world space
WorldPoint(p, z) == <<p[1], p[2], z>>

\* a coordinate in thousandths of a grid step, the float just below a grid
\* line one thousandth below it: fine enough to order squared distances
Fine(v) == 1000 * GridLine(v) - (v % 2)

SquareLength(a, b) ==
    (Fine(a[1]) - Fine(b[1])) * (Fine(a[1]) - Fine(b[1]))
  + (Fine(a[2]) - Fine(b[2])) * (Fine(a[2]) - Fine(b[2]))
  + 1000000 * (a[3] - b[3]) * (a[3] - b[3])

RECURSIVE WallPointsOf(_, _)
WallPointsOf(refs, openings) ==
    IF refs = <<>> THEN <<>>
    ELSE openings[Head(refs)].wallPoints \o WallPointsOf(Tail(refs), openings)

\* Locate the closest opposite point: the first one at the least distance
ClosestWallPoint(world_point, pts) ==
    LET i == CHOOSE i \in 1..Len(pts) :
                 /\ \A j \in 1..Len(pts) : SquareLength(world_point, pts[i]) <= SquareLength(world_point, pts[j])
                 /\ \A j \in 1..(i - 1) : SquareLength(world_point, pts[j]) > SquareLength(world_point, pts[i])
    IN  pts[i]

\* proj_point lies within 1e-4 of the border of the projection plane
OnOuterBorder(p) ==
    \/ GridLine(p[1]) = 0 \/ GridLine(p[1]) = GridN
    \/ GridLine(p[2]) = 0 \/ GridLine(p[2]) = GridN

\* fabs((a.x - b.x) * (a.y - b.y)) < 1e-5f
AxisAligned(a, b) == SameGridLine(a[1], b[1]) \/ SameGridLine(a[2], b[2])

DropLast(s, n) == SubSeq(s, 1, Len(s) - n)

\* The loop of CloseWindows over the points of one contour that has another
\* side.  st = [verts, vertcnt, outer_border, last_proj_point, start_is_outer_border]
RECURSIVE CloseContourFrom(_, _, _, _, _, _)
CloseContourFrom(k, st, contour, pts, z, vstart) ==
    IF k > Len(contour) THEN st
    ELSE
    LET proj_point  == contour[k]
        world_point == WorldPoint(proj_point, z)
        bestv       == ClosestWallPoint(world_point, pts)
        border      == OnOuterBorder(proj_point)
        drop_this_edge == border /\ st.outer_border /\ AxisAligned(proj_point, st.last_proj_point)
        start_is    == IF border /\ ~st.outer_border /\ k = 1 THEN TRUE ELSE st.start_is_outer_border
        v1   == IF drop_this_edge THEN DropLast(st.verts, 2) ELSE st.verts
        v2   == IF ~drop_this_edge THEN v1 \o <<bestv, world_point>> ELSE v1
        cnt2 == IF ~drop_this_edge THEN Append(st.vertcnt, 4) ELSE st.vertcnt
        v3   == IF k # 1 THEN v2 \o <<world_point, bestv>> ELSE v2
        last == k # 1 /\ k = Len(contour)
        dropfinal == last /\ start_is /\ border /\ AxisAligned(proj_point, contour[1])
        v4   == IF ~last THEN v3
                ELSE IF dropfinal THEN DropLast(v3, 2)
                ELSE v3 \o <<v3[vstart + 1], v3[vstart + 2]>>
        cnt4 == IF dropfinal THEN DropLast(cnt2, 1) ELSE cnt2
    IN  CloseContourFrom(k + 1,
            [verts |-> v4, vertcnt |-> cnt4, outer_border |-> border,
             last_proj_point |-> proj_point, start_is_outer_border |-> start_is],
            contour, pts, z, vstart)

RECURSIVE AppendWallPoints(_, _, _)
AppendWallPoints(refs, openings, pts) ==
    IF refs = <<>> THEN openings
    ELSE AppendWallPoints(Tail(refs),
            [openings EXCEPT ![Head(refs)].wallPoints = @ \o pts], pts)

WithMesh(r, st) == [r EXCEPT !.mesh = [verts |-> st.verts, vertcnt |-> st.vertcnt]]

\* mutant: the wall points are appended whether or not the contour has another
\* side
RECURSIVE CloseWindowsFrom_AlwaysAppend(_, _, _, _, _)
CloseWindowsFrom_AlwaysAppend(it, r, contours, contours_to_openings, z) ==
    IF it > Len(contours) THEN r
    ELSE IF contours[it].contour = <<>>
    THEN CloseWindowsFrom_AlwaysAppend(it + 1, r, contours, contours_to_openings, z)
    ELSE CloseWindowsFrom_AlwaysAppend(it + 1,
             [r EXCEPT !.openings =
                 AppendWallPoints(contours_to_openings[it], r.openings,
                     Tuple([k \in 1..Len(contours[it].contour) |->
                               WorldPoint(contours[it].contour[k], z)]))],
             contours, contours_to_openings, z)

\* CloseWindows: r = [mesh, openings]
RECURSIVE CloseWindowsFrom(_, _, _, _, _)
CloseWindowsFrom(it, r, contours, contours_to_openings, z) ==
    IF it > Len(contours) THEN r
    ELSE IF contours[it].contour = <<>>
    THEN CloseWindowsFrom(it + 1, r, contours, contours_to_openings, z)
    ELSE
    LET refs    == contours_to_openings[it]
        contour == contours[it].contour
        has_other_side == \E k \in 1..Len(refs) : r.openings[refs[k]].wallPoints # <<>>
    IN
    IF has_other_side
    THEN CloseWindowsFrom(it + 1,
             WithMesh(r, CloseContourFrom(1,
                 [verts |-> r.mesh.verts, vertcnt |-> r.mesh.vertcnt, outer_border |-> FALSE,
                  last_proj_point |-> <<0, 0>>, start_is_outer_border |-> FALSE],
                 contour, WallPointsOf(refs, r.openings), z, Len(r.mesh.verts))),
             contours, contours_to_openings, z)
    ELSE CloseWindowsFrom(it + 1,
             [r EXCEPT !.openings = AppendWallPoints(refs, r.openings,
                                        Tuple([k \in 1..Len(contour) |-> WorldPoint(contour[k], z)]))],
             contours, contours_to_openings, z)

CloseWindows(contours, contours_to_openings, curmesh, openings, z) ==
    CloseWindowsFrom(1, [mesh |-> curmesh, openings |-> openings], contours, contours_to_openings, z)

-----------------------------------------------------------------------------
(* GenerateOpenings and its fallback *)

\* An opening is [profile, wallPoints]: profile holds the vertices of the faces
\* of the opening's profile mesh that face the wall, already mapped into the
\* projection space of the wall face; wallPoints are points of world space.
\* The wall face is the unit square of its projection space, in the plane z.
Rect(bb) ==
    << bb.first, <<bb.second[1], bb.first[2]>>, bb.second, <<bb.first[1], bb.second[2]>> >>

\* ProjectOntoPlane: the outline of the face in projection space
ProjectOntoPlane(curmesh) ==
    Tuple([i \in 1..Len(curmesh.verts) |-> <<curmesh.verts[i][1], curmesh.verts[i][2]>>])

\* the vertex loop of GenerateOpenings over the faces that face the wall
RECURSIVE CollectContour(_, _, _)
CollectContour(profile, vi, temp_contour) ==
    IF vi > Len(profile) THEN temp_contour
    ELSE LET vv == Clamp01(profile[vi])
         IN  CollectContour(profile, vi + 1,
                 IF ~IsDuplicateVertex(vv, temp_contour) THEN Append(temp_contour, vv) ELSE temp_contour)

\* The per-opening loop of GenerateOpenings.  rel[c] tells how opening c lies
\* to this face: "ok", "away" (no face of it faces the wall), "off" (it does not
\* reach the plane of the face).  acc = [contours, c2o, exit].
\* the faces of the opening's profile mesh that face the wall
Facing(opening, r) == IF r = "away" THEN <<>> ELSE opening.profile

ClampedExtent(facing) == Extent(Tuple([i \in 1..Len(facing) |-> Clamp01(facing[i])]))

RECURSIVE OpeningLoop(_, _, _, _, _, _)
RECURSIVE OpeningContour(_, _, _, _, _, _, _, _)
RECURSIVE OpeningScanned(_, _, _, _, _, _, _)
OpeningLoop(c, openings, rel, check_int, gen, acc) ==
    IF c > Len(openings) THEN acc
    ELSE OpeningContour(c, openings, rel, check_int, gen, acc,
             CollectContour(Facing(openings[c], rel[c]), 1, <<>>),
             ClampedExtent(Facing(openings[c], rel[c])))

\* temp_contour and bb are the projected contour of opening c and its bounding box
OpeningContour(c, openings, rel, check_int, gen, acc, temp_contour, bb) ==
    IF Len(openings[c].profile) <= 2 THEN OpeningLoop(c + 1, openings, rel, check_int, gen, acc)
    ELSE IF Len(temp_contour) <= 2 THEN OpeningLoop(c + 1, openings, rel, check_int, gen, acc)
    ELSE IF check_int /\ rel[c] = "off" THEN OpeningLoop(c + 1, openings, rel, check_int, gen, acc)
    ELSE IF AreaBelowGate(bb) THEN OpeningLoop(c + 1, openings, rel, check_int, gen, acc)
    ELSE OpeningScanned(c, openings, rel, check_int, gen, acc,
             ScanContours(1, [temp_contour |-> temp_contour, bb |-> bb, joined |-> <<c>>,
                              contours |-> acc.contours, c2o |-> acc.c2o, exit |-> "end"], gen))

\* st is the state the scan of the accepted contours ended in
OpeningScanned(c, openings, rel, check_int, gen, acc, st) ==
    IF st.exit = "poly2tri" THEN [acc EXCEPT !.exit = "poly2tri"]
    ELSE OpeningLoop(c + 1, openings, rel, check_int, gen,
            IF st.temp_contour # <<>>
            THEN [acc EXCEPT !.contours = Append(st.contours, ProjectedWindowContour(st.temp_contour, st.bb)),
                             !.c2o = IF gen THEN Append(st.c2o, st.joined) ELSE st.c2o]
            ELSE [acc EXCEPT !.contours = st.contours, !.c2o = st.c2o])

\* the triangles poly2tri hands back for one ExPolygon: two for every grid
\* cell of it, in world space
RECURSIVE Triangulate(_, _)
Triangulate(cells, z) ==
    IF cells = {} THEN <<>>
    ELSE LET c  == FirstCell(cells)
             x0 == from_int64(FixedOf(c[1]))
             x1 == from_int64(FixedOf(c[1] + 1))
             y0 == from_int64(FixedOf(c[2]))
             y1 == from_int64(FixedOf(c[2] + 1))
         IN  << <<x0, y0, z>>, <<x1, y0, z>>, <<x1, y1, z>>,
                <<x0, y0, z>>, <<x1, y1, z>>, <<x0, y1, z>> >> \o Triangulate(cells \ {c}, z)

RECURSIVE TrianglesFrom(_, _, _, _)
TrianglesFrom(i, clipped, good, z) ==
    IF i > Len(clipped) THEN <<>>
    ELSE (IF i \in good THEN Triangulate(clipped[i].cells, z) ELSE <<>>)
         \o TrianglesFrom(i + 1, clipped, good, z)

TriangleMesh(verts) == [verts |-> verts, vertcnt |-> [i \in 1..(Len(verts) \div 3) |-> 3]]

\* mutant: no revert when nothing was triangulated
Poly2TriOf_NoRevert(clipped, good, curmesh, z) ==
    IF good = {} THEN [ret |-> FALSE, mesh |-> EmptyMesh]
    ELSE [ret |-> TRUE, mesh |-> TriangleMesh(TrianglesFrom(1, clipped, good, z))]

\* the polygons poly2tri does not throw on are triangulated
Poly2TriOf(clipped, good, curmesh, z) ==
    IF good = {}
    THEN [ret |-> FALSE, mesh |-> [verts |-> <<>> \o curmesh.verts, vertcnt |-> <<>> \o curmesh.vertcnt]]
    ELSE [ret |-> TRUE, mesh |-> TriangleMesh(TrianglesFrom(1, clipped, good, z))]

Poly2TriClipped(clipped, broken, curmesh, z) ==
    Poly2TriOf(clipped, {i \in 1..Len(clipped) : i \notin broken}, curmesh, z)

Poly2TriHoles(holes, broken, curmesh, z) ==
    IF holes = {} THEN [ret |-> FALSE, mesh |-> curmesh]
    ELSE Poly2TriClipped(ExPolygons(PolyCells(ToClipper(ProjectOntoPlane(curmesh))) \ holes),
                         broken, curmesh, z)

\* TryAddOpenings_Poly2Tri.  parallel: the openings whose precomputed normal is
\* parallel to the normal of the face; broken: the ExPolygons poly2tri throws on.
TryAddOpenings_Poly2Tri(openings, parallel, broken, curmesh, z) ==
    Poly2TriHoles(UNION {PolyCells(ToClipper(openings[c].profile)) :
                           c \in {c \in parallel : Len(openings[c].profile) > 2}},
                  broken, curmesh, z)

ToWorld(m, z) == [m EXCEPT !.verts = Tuple([i \in 1..Len(m.verts) |-> WorldPoint(m.verts[i], z)])]

Connected(cleaned, c2o, world, openings, gen, z) ==
    IF gen THEN CloseWindows(cleaned, c2o, world, openings, z)
    ELSE [mesh |-> world, openings |-> openings]

\* the result [ret, mesh, openings, stages]; stages holds the mesh as Quadrify,
\* InsertWindowContours and CleanupOuterContour left it
Returned(closed, quads, filled, clipped) ==
    [ret |-> TRUE, mesh |-> closed.mesh, openings |-> closed.openings,
     stages |-> <<quads, filled, clipped>>]

Clipped(cleaned, c2o, openings, gen, z, quads, filled, clipped) ==
    Returned(Connected(cleaned, c2o, ToWorld(clipped, z), openings, gen, z), quads, filled, clipped)

Filled(cleaned, c2o, openings, gen, contour_flat, z, quads, filled) ==
    Clipped(cleaned, c2o, openings, gen, z, quads, filled, CleanupOuterContour(contour_flat, filled))

ApplyWindows(cleaned, c2o, openings, gen, curmesh, z, quads) ==
    Filled(cleaned, c2o, openings, gen, ProjectOntoPlane(curmesh), z, quads,
           InsertWindowContours(cleaned, quads))

ContourBoxes(contours) == Tuple([i \in 1..Len(contours) |-> contours[i].bb])

\* mutant: the face is not cleared and subdivided
ApplyContours_KeepFace(contours, c2o, openings, gen, curmesh, z) ==
    [ret |-> contours # <<>>, mesh |-> curmesh, openings |-> openings, stages |-> <<>>]

\* GenerateOpenings behind the per-opening loop: the contours are turned into
\* the face mesh.  The result is [ret, mesh, openings].
ApplyContours(contours, c2o, openings, gen, curmesh, z) ==
    IF contours = <<>>
    THEN [ret |-> FALSE, mesh |-> curmesh, openings |-> openings, stages |-> <<>>]
    ELSE ApplyWindows(CleanupWindowContours(contours), c2o, openings, gen, curmesh, z,
                      QuadrifyBoxes(ContourBoxes(contours)))

-----------------------------------------------------------------------------
(* Specification of the opening pipeline: GenerateOpenings is called for the
   side faces of one wall, one after the other, with the openings collected
   for the wall *)

NoWall ==
    [openings |-> <<>>, side |-> 0, check_intersection |-> TRUE,
     generate_connection_geometry |-> TRUE, rejected |-> 0, contours |-> <<>>,
     contours_to_openings |-> <<>>, path |-> "none", ret |-> FALSE, stages |-> <<>>]

NoSolid == [kind |-> "none"]

\* rectangular openings between the grid lines of the face: low windows
\* that touch and overlap, a high one at the left border of the face, a wide
\* one, and the window that leaves one grid step of wall all around
Box(x0, y0, x1, y1) == BoundingBox(<<2 * x0, 2 * y0>>, <<2 * x1, 2 * y1>>)

OpeningBoxes ==
    {Box(1, 1, 3, 2), Box(2, 1, GridN - 1, 2), Box(GridN - 2, 1, GridN - 1, 2),
     Box(0, 1, 2, GridN - 1), Box(1, GridN - 2, GridN - 1, GridN - 1),
     Box(1, 1, GridN - 1, GridN - 1)}

\* the profile mesh of an extruded box seen along its axis: the two caps
BoxProfile(bb) == Reverse(Rect(bb)) \o Reverse(Rect(bb))

\* a triangle thinner than any epsilon: its third vertex is the float just
\* below the grid line of the other two
SliverProfile == << <<2, 4>>, <<4, 4>>, <<6, 3>> >>

\* the caps of a box listed from the lower left corner on: the vertex order of
\* a profile mesh is that of the opening's own geometry
TurnedProfile(bb) ==
    << Rect(bb)[1], Rect(bb)[4], Rect(bb)[3], Rect(bb)[2],
       Rect(bb)[1], Rect(bb)[4], Rect(bb)[3], Rect(bb)[2] >>

OpeningProfiles ==
    {BoxProfile(bb) : bb \in OpeningBoxes} \cup {SliverProfile}
        \cup {TurnedProfile(Box(0, 1, 2, GridN - 1))}

\* the side of the wall GenerateOpenings is called for, in world space
WallFace(z) ==
    [verts |-> << <<0, 0, z>>, <<One, 0, z>>, <<One, One, z>>, <<0, One, z>> >>, vertcnt |-> <<4>>]

\* the flags of the call sites: ProcessExtrudedAreaSolid and
\* ProcessBooleanExtrudedAreaSolidDifference leave the defaults (true, true),
\* ProcessPolygonBoundaries passes (false, false)
CallFlags == {<<TRUE, TRUE>>, <<FALSE, FALSE>>}

\* how the openings lie to the face of a call: at most budget of them other
\* than "ok"; with check_intersection "away" and "off" end alike, so "off"
\* stands for both
NotOk(rel) == Cardinality({c \in DOMAIN rel : rel[c] # "ok"})

RelChoices(n, check_int, budget) ==
    {rel \in [1..n -> IF check_int THEN {"ok", "off"} ELSE {"ok", "away", "off"}] :
        NotOk(rel) <= budget}

InitOpenings ==
    /\ mode = "openings"
    /\ pc = "collect"
    /\ bbs = <<>>
    /\ mesh = EmptyMesh
    /\ wall = NoWall
    /\ solid = NoSolid

\* conv.collect_openings->push_back(TempOpening(...))
CollectOpening ==
    /\ mode = "openings" /\ pc = "collect"
    /\ Len(wall.openings) < MaxOpenings
    /\ \E profile \in OpeningProfiles :
          wall' = [wall EXCEPT !.openings = Append(@, [profile |-> profile, wallPoints |-> <<>>])]
    /\ UNCHANGED <<mode, pc, bbs, mesh, solid>>

\* the caller puts the next side of the wall into the temporary mesh
NextSide ==
    /\ mode = "openings" /\ pc \in {"collect", "returned"}
    /\ wall.side < MaxSides
    /\ wall.side > 0 => wall.generate_connection_geometry
    /\ \E fl \in CallFlags :
          /\ wall.side > 0 => fl = <<wall.check_intersection, wall.generate_connection_geometry>>
          /\ wall' = [wall EXCEPT !.side = @ + 1, !.check_intersection = fl[1],
                                  !.generate_connection_geometry = fl[2]]
    /\ mesh' = WallFace(wall.side + 1)
    /\ pc' = "side"
    /\ UNCHANGED <<mode, bbs, solid>>

Poly2TriResult(r, acc, openings, rejected) ==
    [ret |-> r.ret, mesh |-> r.mesh, openings |-> openings,
     contours |-> acc.contours, contours_to_openings |-> acc.c2o,
     path |-> "poly2tri", rejected |-> rejected, stages |-> <<>>]

\* mutant: the face is gone when no contour is left
ContoursResult_Cleared(r, acc, rejected) ==
    [ret |-> r.ret, mesh |-> IF r.ret THEN r.mesh ELSE EmptyMesh, openings |-> r.openings,
     contours |-> acc.contours, contours_to_openings |-> acc.c2o,
     path |-> IF r.ret THEN "quadrify" ELSE "nocontours", rejected |-> rejected,
     stages |-> r.stages]

ContoursResult(r, acc, rejected) ==
    [ret |-> r.ret, mesh |-> r.mesh, openings |-> r.openings,
     contours |-> acc.contours, contours_to_openings |-> acc.c2o,
     path |-> IF r.ret THEN "quadrify" ELSE "nocontours", rejected |-> rejected,
     stages |-> r.stages]

\* acc is what the per-opening loop ended with
ResultsOf(acc, openings, curmesh, z, gen, rejected) ==
    IF acc.exit = "poly2tri"
    THEN {Poly2TriResult(TryAddOpenings_Poly2Tri(openings, parallel, broken, curmesh, z),
                         acc, openings, rejected) :
             parallel \in SUBSET (1..Len(openings)), broken \in SUBSET (1..2)}
    ELSE {ContoursResult(ApplyContours(acc.contours, acc.c2o, openings, gen, curmesh, z),
                         acc, rejected)}

\* the outcomes of one call for the ways rels the openings can lie to the face:
\* [ret, mesh, openings, contours, contours_to_openings, path, rejected, stages]
GenerateOpeningsOn(openings, curmesh, z, check_int, gen, rels) ==
    {[ret |-> FALSE, mesh |-> curmesh, openings |-> openings, contours |-> <<>>,
      contours_to_openings |-> <<>>, path |-> "noplane", rejected |-> 0, stages |-> <<>>]}
    \cup
    UNION {ResultsOf(OpeningLoop(1, openings, rel, check_int, gen,
                                 [contours |-> <<>>, c2o |-> <<>>, exit |-> "end"]),
                     openings, curmesh, z, gen, NotOk(rel))
           : rel \in rels}

GenerateOpeningsResults(openings, curmesh, z, check_int, gen, budget) ==
    GenerateOpeningsOn(openings, curmesh, z, check_int, gen,
                       RelChoices(Len(openings), check_int, budget))

GenerateOpenings ==
    /\ mode = "openings" /\ pc = "side"
    /\ \E r \in GenerateOpeningsResults(wall.openings, mesh, wall.side,
                    wall.check_intersection, wall.generate_connection_geometry,
                    MaxRejected - wall.rejected) :
          /\ mesh' = r.mesh
          /\ wall' = [wall EXCEPT !.openings = r.openings, !.contours = r.contours,
                                  !.contours_to_openings = r.contours_to_openings,
                                  !.path = r.path, !.ret = r.ret, !.stages = r.stages,
                                  !.rejected = @ + r.rejected]
    /\ pc' = "returned"
    /\ UNCHANGED <<mode, bbs, solid>>

NextOpenings == CollectOpening \/ NextSide \/ GenerateOpenings

SpecOpenings == InitOpenings /\ [][NextOpenings]_vars

-----------------------------------------------------------------------------
(* Polyloops, half-space clipping, revolution and linear extrusion *)

\* mutant: the count of a loop of one point is taken back, the point stays
ProcessPolyloopResult_PointStays(loop, meshout) ==
    [ret |-> Len(loop) > 1,
     mesh |-> [verts |-> meshout.verts \o loop,
               vertcnt |-> IF Len(loop) = 1 THEN meshout.vertcnt
                           ELSE Append(meshout.vertcnt, Len(loop))]]

\* ProcessPolyloop: the points of the loop are appended as one face; a loop of
\* one point is taken back, a loop of no point leaves its count.  The result
\* is [ret, mesh].
ProcessPolyloopResult(loop, meshout) ==
    IF Len(loop) > 1
    THEN [ret |-> TRUE,
          mesh |-> [verts |-> meshout.verts \o loop, vertcnt |-> Append(meshout.vertcnt, Len(loop))]]
    ELSE IF Len(loop) = 1
    THEN [ret |-> FALSE,
          mesh |-> [verts |-> DropLast(meshout.verts \o loop, 1),
                    vertcnt |-> DropLast(Append(meshout.vertcnt, Len(loop)), 1)]]
    ELSE [ret |-> FALSE,
          mesh |-> [verts |-> meshout.verts, vertcnt |-> Append(meshout.vertcnt, 0)]]

\* Half-space clipping.  A vertex is <<a, b, h>>: a = b names a vertex of the
\* first operand, a < b the point where the edge from a to b meets the plane;
\* h is the sign of (v - p) * n, the side of the plane the vertex lies on.
Abs(a) == IF a < 0 THEN -a ELSE a

Height(v) == v[3]

CutPoint(e0, e1) == <<Min2(e0[1], e1[1]), Max2(e0[2], e1[2]), 0>>

\* IntersectSegmentPlane: [isect, out]; dotOne = n*seg, dotTwo = -(n*pdelta),
\* t = dotTwo/dotOne
IntersectSegmentPlane(e0, e1) ==
    IF Height(e1) - Height(e0) = 0
    THEN [isect |-> IF Height(e0) = 0 THEN "LiesOnPlane" ELSE "No", out |-> e0]
    ELSE IF (-Height(e0)) * (Height(e1) - Height(e0)) < 0 THEN [isect |-> "No", out |-> e0]
    ELSE IF (Height(e1) - Height(e0)) * (Height(e1) - Height(e0))
              < (-Height(e0)) * (Height(e1) - Height(e0)) THEN [isect |-> "No", out |-> e0]
    ELSE [isect |-> "Yes",
          out |-> IF Height(e0) = 0 THEN e0 ELSE IF Height(e1) = 0 THEN e1 ELSE CutPoint(e0, e1)]

\* mutant: the first vertex of an edge that meets the plane is always kept
ClipEdge_KeepStart(e0, x) ==
    IF x.isect # "Yes" THEN (IF Height(e0) > 0 THEN <<e0>> ELSE <<>>)
    ELSE <<e0, x.out>>

\* the vertices one edge of a face adds to the result
ClipEdge(e0, x) ==
    IF x.isect # "Yes" THEN (IF Height(e0) > 0 THEN <<e0>> ELSE <<>>)
    ELSE IF Height(e0) > 0 THEN <<e0, x.out>>
    ELSE <<x.out>>

RECURSIVE ClipFace(_, _)
ClipFace(face, i) ==
    IF i > Len(face) THEN <<>>
    ELSE ClipEdge(face[i], IntersectSegmentPlane(face[i], face[(i % Len(face)) + 1]))
         \o ClipFace(face, i + 1)

\* FuzzyVectorCompare(epsilon): the squared distance is below epsilon.  The
\* numbers of a vertex are its place in units of two thirds of the tolerance:
\* places 0 or 1 apart are equal to the comparison, places 2 apart are not.
FuzzyVectorCompare(u, v) ==
    Abs(u[1] - v[1]) <= 1 /\ Abs(u[2] - v[2]) <= 1 /\ Abs(u[3] - v[3]) <= 1

\* std::unique with the fuzzy comparison: of equal neighbours the first stays
RECURSIVE Unique(_)
Unique(s) ==
    IF Len(s) <= 1 THEN s
    ELSE IF FuzzyVectorCompare(s[1], s[2]) THEN Unique(<<s[1]>> \o SubSeq(s, 3, Len(s)))
    ELSE <<s[1]>> \o Unique(Tail(s))

\* the last vertex goes when it is the first one again
Closed(s) == IF FuzzyVectorCompare(s[1], s[Len(s)]) THEN DropLast(s, 1) ELSE s

\* what is left of one face: faces of two or fewer vertices are taken back
Kept(clipped) ==
    IF clipped = <<>> THEN <<>>
    ELSE IF Len(Closed(Unique(clipped))) > 2 THEN Closed(Unique(clipped))
    ELSE <<>>

AppendFace(m, face) ==
    IF face = <<>> THEN m
    ELSE [verts |-> m.verts \o face, vertcnt |-> Append(m.vertcnt, Len(face))]

RECURSIVE HalfSpaceFrom(_, _, _)
HalfSpaceFrom(f, first_operand, result) ==
    IF f > Len(first_operand.vertcnt) THEN result
    ELSE HalfSpaceFrom(f + 1, first_operand,
             AppendFace(result, Kept(ClipFace(FaceVerts(first_operand, f), 1))))

ProcessBooleanHalfSpaceDifferenceResult(first_operand, result) ==
    HalfSpaceFrom(1, first_operand, result)

\* Revolution.  Angles are counted in units of 1e-7 rad; the two constants are
\* the float values of pi/2 and 2*pi, which lie above the doubles.
AI_MATH_HALF_PI_F == 15707964

AI_MATH_TWO_PI_F == 62831855

\* the largest angle below AI_MATH_TWO_PI_F*0.99
NearlyFullTurn == 99 * (AI_MATH_TWO_PI_F \div 100) + (99 * (AI_MATH_TWO_PI_F % 100)) \div 100

\* mutant: the quotient is rounded up
SegmentCount_Ceiling(max_angle) ==
    Max2(2, (16 * Abs(max_angle) + AI_MATH_HALF_PI_F - 1) \div AI_MATH_HALF_PI_F)

\* mutant: the quotient is rounded to the nearest number
SegmentCount_Rounded(max_angle) ==
    Max2(2, (16 * Abs(max_angle) + AI_MATH_HALF_PI_F \div 2) \div AI_MATH_HALF_PI_F)

\* std::max(2u, static_cast<unsigned int>(16 * fabs(max_angle) / AI_MATH_HALF_PI_F))
SegmentCount(max_angle) == Max2(2, (16 * Abs(max_angle)) \div AI_MATH_HALF_PI_F)

\* a vertex of a revolved solid is <<i, k>>: vertex i of the profile, turned k
\* times by delta = max_angle / cnt_segments
Rot(v) == <<v[1], v[2] + 1>>

PushSide(out, base_0, base_1) == out \o <<base_0, base_1, Rot(base_1), Rot(base_0)>>

\* the inner loop of one segment; i and base count from 0 as in the source
RECURSIVE RevolveSegment(_, _, _, _)
RevolveSegment(out, base, i, size) ==
    IF i = size THEN out
    ELSE RevolveSegment(PushSide(out, out[base + i * 4 + 3 + 1],
                                      out[base + ((i + 1) % size) * 4 + 3 + 1]),
                        base, i + 1, size)

RECURSIVE RevolveFrom(_, _, _, _, _)
RevolveFrom(out, base, seg, cnt_segments, size) ==
    IF seg = cnt_segments THEN out
    ELSE IF Len(out) < base + size * 4 THEN out   \* the block a segment reads is there
    ELSE RevolveFrom(RevolveSegment(out, base, 0, size), base + size * 4, seg + 1,
                     cnt_segments, size)

\* dummy data to simplify later processing: every vertex four times
Dummy(in) == Tuple([j \in 1..(4 * Len(in)) |-> in[((j - 1) \div 4) + 1]])

\* the two polygons that close the solid, read at base = size*4*cnt_segments - size*8
RevolveCaps(out, base, size) ==
    Tuple([j \in 1..size |-> out[base + (size - j) * 4 + 3 + 1]])
        \o Tuple([j \in 1..size |-> out[(j - 1) * 4 + 1]])

WithCaps(out, base, size, has_area) ==
    IF has_area THEN out \o RevolveCaps(out, base, size) ELSE out

RevolvedMesh(out, size, cnt_segments, has_area) ==
    [verts |-> out,
     vertcnt |-> Tuple([f \in 1..(size * cnt_segments) |-> 4])
                   \o (IF has_area THEN <<size, size>> ELSE <<>>)]

Revolved(in, cnt_segments, has_area) ==
    RevolvedMesh(WithCaps(SubSeq(RevolveFrom(Dummy(in), 0, 0, cnt_segments, Len(in)),
                                 Len(in) * 4 + 1, Len(in) * 4 * (cnt_segments + 1)),
                          Len(in) * 4 * cnt_segments - Len(in) * 8, Len(in), has_area),
                 Len(in), cnt_segments, has_area)

\* ProcessRevolvedAreaSolid on an empty result: in is the profile, area tells
\* ProfileType == "AREA"
ProcessRevolvedAreaSolidResult(in, area, max_angle, result) ==
    IF Len(in) <= 1 THEN result
    ELSE IF Abs(max_angle) < 10000
    THEN (IF area /\ Len(in) > 2
          THEN [verts |-> in, vertcnt |-> <<Len(in)>>] ELSE result)
    ELSE Revolved(in, SegmentCount(max_angle),
                  area /\ Len(in) > 2 /\ Abs(max_angle) <= NearlyFullTurn)

\* Linear extrusion: a vertex is a point <<x, y, z>>
Plus(a, b) == <<a[1] + b[1], a[2] + b[2], a[3] + b[3]>>

\* one side of the extrusion, i counts from 0
SideQuad(in, i, dir) ==
    << in[i + 1], Plus(in[i + 1], dir), Plus(in[((i + 1) % Len(in)) + 1], dir),
       in[((i + 1) % Len(in)) + 1] >>

\* mutant: the second cap is the first one again
CapFace_Bottom(in, n, dir) == Tuple([j \in 1..(Len(in) - n) |-> in[Len(in) + 1 - j]])

\* for(size_t i = size; i--; ) out.push_back(in[i] + (n ? dir : IfcVector3()))
CapFace(in, n, dir) ==
    Tuple([j \in 1..Len(in) |->
             Plus(in[Len(in) + 1 - j], IF n = 0 THEN <<0, 0, 0>> ELSE dir)])

OneFace(face) == [verts |-> face, vertcnt |-> <<Len(face)>>]

\* TempMesh::Append
AppendMesh(m, other) ==
    [verts |-> m.verts \o other.verts, vertcnt |-> m.vertcnt \o other.vertcnt]

-----------------------------------------------------------------------------
(* Specification of the solids: every entity is turned into a mesh of its own,
   a polyloop after a polyloop into the mesh of one face set *)

\* the points of the polyloops
LoopPoints == {<<0, 0, 0>>, <<One, 0, 0>>}

Loops == UNION {[1..n -> LoopPoints] : n \in 0..MaxPolygon}

\* the faces of a first operand, and the sides of the plane its vertices lie on
FaceShapes == {<<3>>, <<4>>, <<3, 3>>}

\* the vertices of these operands lie far from each other
Operand(shape, h) ==
    [verts |-> [k \in 1..SumSeq(shape) |-> <<10 * k, 10 * k, h[k]>>], vertcnt |-> shape]

\* faces on the kept side with vertices at three places next to each other and
\* at one place far from them
NearPlaces == {10, 11, 12, 40}

NearOperands ==
    {[verts |-> [k \in 1..4 |-> <<at[k], at[k], 1>>], vertcnt |-> <<4>>] :
        at \in [1..4 -> NearPlaces]}

\* the closed cube of side 2 around the origin, seen from the plane x = 0: the
\* corners 1..4 have x = -1, corner c + 4 is the one across the plane from c
CubeFaces ==
    << <<1, 2, 3, 4>>, <<5, 6, 7, 8>>,
       <<1, 2, 6, 5>>, <<2, 3, 7, 6>>, <<3, 4, 8, 7>>, <<4, 1, 5, 8>> >>

Cube ==
    [verts |-> [k \in 1..24 |-> <<10 * CubeFaces[((k - 1) \div 4) + 1][((k - 1) % 4) + 1],
                                  10 * CubeFaces[((k - 1) \div 4) + 1][((k - 1) % 4) + 1],
                                  IF CubeFaces[((k - 1) \div 4) + 1][((k - 1) % 4) + 1] <= 4
                                  THEN -1 ELSE 1>>],
     vertcnt |-> <<4, 4, 4, 4, 4, 4>>]

FirstOperands ==
    UNION {{Operand(shape, h) : h \in [1..SumSeq(shape) -> {-1, 0, 1}]} : shape \in FaceShapes}
        \cup {Cube} \cup NearOperands

\* a profile of size vertices in the plane of the axis
RevolveProfile(size) == [i \in 1..size |-> <<i - 1, 0>>]

\* max_angle: below the gate of 1e-3, an eighth, a quarter, half a turn back,
\* the angle from which on the caps go, and the full turn 2*pi
Angles == {5000, 7853982, 15707963, -31415927, NearlyFullTurn + 1, 62831853}

\* the profiles of the extrusions, already in the target coordinate space: one
\* point, a line, a triangle and the unit square, in the plane z = 0
ExtrudeProfiles ==
    { << <<0, 0, 0>> >>,
      << <<0, 0, 0>>, <<One, 0, 0>> >>,
      << <<0, 0, 0>>, <<One, 0, 0>>, <<0, One, 0>> >>,
      << <<0, 0, 0>>, <<One, 0, 0>>, <<One, One, 0>>, <<0, One, 0>> >> }

\* dir: the extrusion runs one unit along z
Dir == <<0, 0, One>>

\* conv.apply_openings of an extrusion, in the order the DistanceSorter leaves
ExtrudeOpenings ==
    { <<>>,
      << SliverProfile >>,
      << BoxProfile(Box(1, 1, GridN - 1, GridN - 1)) >>,
      << BoxProfile(Box(1, 1, 3, 2)), BoxProfile(Box(2, 1, GridN - 1, 2)) >> }

TempOpenings(profiles) ==
    [c \in 1..Len(profiles) |-> [profile |-> profiles[c], wallPoints |-> <<>>]]

\* the face is the unit square in a plane of constant z: its projection space
\* is the one the profiles of the openings are given in
FacesOpenings(face) ==
    /\ {<<face[k][1], face[k][2]>> : k \in 1..Len(face)} = {0, One} \X {0, One}
    /\ \A k \in 1..Len(face) : face[k][3] = face[1][3]

\* how the openings lie to a face: no opening reaches any other face
FaceRels(face, n) ==
    IF FacesOpenings(face) THEN RelChoices(n, TRUE, n) ELSE {[c \in 1..n |-> "off"]}

\* what the face becomes: without openings it goes to the result as it is
FaceOutcomes(face, openings) ==
    IF openings = <<>>
    THEN {[ret |-> FALSE, mesh |-> OneFace(face), openings |-> openings, contours |-> <<>>,
           contours_to_openings |-> <<>>, path |-> "none", rejected |-> 0, stages |-> <<>>]}
    ELSE GenerateOpeningsOn(openings, OneFace(face), face[1][3], TRUE, TRUE,
                            FaceRels(face, Len(openings)))

LastCall(w, r) ==
    [w EXCEPT !.openings = r.openings, !.contours = r.contours,
              !.contours_to_openings = r.contours_to_openings,
              !.path = r.path, !.ret = r.ret, !.stages = r.stages]

InitSolids ==
    /\ mode = "solids"
    /\ pc = "idle"
    /\ bbs = <<>>
    /\ mesh = EmptyMesh
    /\ wall = NoWall
    /\ solid = NoSolid

\* ProcessPolyloop(*polyloop, meshout, conv)
ProcessPolyloop ==
    /\ mode = "solids" /\ pc \in {"idle", "polyloop"}
    /\ (IF solid.kind = "none" THEN 0 ELSE solid.calls) < MaxLoops
    /\ \E loop \in Loops :
          /\ mesh' = ProcessPolyloopResult(loop, mesh).mesh
          /\ solid' = [kind |-> "polyloop",
                       calls |-> IF solid.kind = "none" THEN 1 ELSE solid.calls + 1,
                       loop |-> loop,
                       ret |-> ProcessPolyloopResult(loop, mesh).ret]
    /\ pc' = "polyloop"
    /\ UNCHANGED <<mode, bbs, wall>>

\* ProcessBooleanHalfSpaceDifference(hs, result, first_operand, conv)
ProcessBooleanHalfSpaceDifference ==
    /\ mode = "solids" /\ pc = "idle"
    /\ \E first_operand \in FirstOperands :
          /\ mesh' = ProcessBooleanHalfSpaceDifferenceResult(first_operand, mesh)
          /\ solid' = [kind |-> "halfspace", first_operand |-> first_operand]
    /\ pc' = "clipped"
    /\ UNCHANGED <<mode, bbs, wall>>

\* ProcessRevolvedAreaSolid(solid, result, conv)
ProcessRevolvedAreaSolid ==
    /\ mode = "solids" /\ pc = "idle"
    /\ \E size \in 1..MaxProfile, area \in BOOLEAN, max_angle \in Angles :
          /\ mesh' = ProcessRevolvedAreaSolidResult(RevolveProfile(size), area, max_angle, mesh)
          /\ solid' = [kind |-> "revolution", size |-> size, area |-> area,
                       max_angle |-> max_angle]
    /\ pc' = "revolved"
    /\ UNCHANGED <<mode, bbs, wall>>

\* ProcessExtrudedAreaSolid up to the loop over the sides
ExtrudeBegin ==
    /\ mode = "solids" /\ pc = "idle"
    /\ \E in \in ExtrudeProfiles, area \in BOOLEAN, deep \in BOOLEAN,
          profiles \in ExtrudeOpenings :
          /\ solid' = [kind |-> "extrusion", in |-> in, has_area |-> area /\ Len(in) > 2,
                       deep |-> deep, i |-> 0, n |-> 0,
                       sides_with_openings |-> 0, sides_with_v_openings |-> 0]
          /\ wall' = [NoWall EXCEPT !.openings = TempOpenings(profiles)]
          /\ pc' = IF Len(in) <= 1 \/ ~deep THEN "extruded" ELSE "sides"
    /\ UNCHANGED <<mode, bbs, mesh>>

\* one turn of the loop over the sides
ExtrudeSide ==
    /\ mode = "solids" /\ pc = "sides"
    /\ \E r \in FaceOutcomes(SideQuad(solid.in, solid.i, Dir), wall.openings) :
          /\ mesh' = AppendMesh(mesh, r.mesh)
          /\ wall' = LastCall(wall, r)
          /\ solid' = [solid EXCEPT !.i = @ + 1,
                                    !.sides_with_openings = IF r.ret THEN @ + 1 ELSE @]
    /\ pc' = IF solid.i + 1 < Len(solid.in) THEN "sides"
             ELSE IF solid.has_area THEN "caps" ELSE "extruded"
    /\ UNCHANGED <<mode, bbs>>

\* one turn of the loop over the two caps
ExtrudeCap ==
    /\ mode = "solids" /\ pc = "caps"
    /\ \E r \in FaceOutcomes(CapFace(solid.in, solid.n, Dir), wall.openings) :
          /\ mesh' = AppendMesh(mesh, r.mesh)
          /\ wall' = LastCall(wall, r)
          /\ solid' = [solid EXCEPT !.n = @ + 1,
                                    !.sides_with_v_openings = IF r.ret THEN @ + 1 ELSE @]
    /\ pc' = IF solid.n + 1 < 2 THEN "caps" ELSE "extruded"
    /\ UNCHANGED <<mode, bbs>>

NextSolids ==
    \/ ProcessPolyloop
    \/ ProcessBooleanHalfSpaceDifference
    \/ ProcessRevolvedAreaSolid
    \/ ExtrudeBegin \/ ExtrudeSide \/ ExtrudeCap

SpecSolids == InitSolids /\ [][NextSolids]_vars

-----------------------------------------------------------------------------
(* Boolean results and geometric items.  The meshes are made of points
   <<x, y, z>>; the plane of a half space is z = 0 with the normal along z. *)

\* ProcessExtrudedAreaSolid when conv.apply_openings is not set: the sides,
\* then the two caps of an area
RECURSIVE ExtrudedSides(_, _)
ExtrudedSides(in, i) ==
    IF i = Len(in) THEN EmptyMesh
    ELSE AppendMesh(OneFace(SideQuad(in, i, Dir)), ExtrudedSides(in, i + 1))

ExtrudedSolid(in, area) ==
    IF Len(in) <= 1 THEN EmptyMesh
    ELSE IF area /\ Len(in) > 2
    THEN AppendMesh(ExtrudedSides(in, 0),
                    AppendMesh(OneFace(CapFace(in, 0, Dir)), OneFace(CapFace(in, 1, Dir))))
    ELSE ExtrudedSides(in, 0)

\* one component of the Newell normal of a polygon: a and b are the two other
\* coordinates
RECURSIVE NewellSum(_, _, _, _)
NewellSum(face, i, a, b) ==
    IF i > Len(face) THEN 0
    ELSE (face[i][a] - face[(i % Len(face)) + 1][a]) * (face[i][b] + face[(i % Len(face)) + 1][b])
         + NewellSum(face, i + 1, a, b)

\* the normal is shorter than the gate of 1e-5: on the grid it is 0
Degenerate(face) ==
    /\ NewellSum(face, 1, 2, 3) = 0
    /\ NewellSum(face, 1, 3, 1) = 0
    /\ NewellSum(face, 1, 1, 2) = 0

\* what a call of GenerateOpenings can leave of the face and of the openings
FaceCuts(face, openings) == {<<r.mesh, r.openings>> : r \in FaceOutcomes(face, openings)}

\* the loop of ProcessBooleanExtrudedAreaSolidDifference over the faces of the
\* first operand: f is the face, vit the place of the iterator in verts, which
\* stays behind when a face is skipped.  The result is a set of meshes, one for
\* every way the opening can lie to the faces.
RECURSIVE ExtrudedDifferenceFrom(_, _, _, _, _)
ExtrudedDifferenceFrom(f, vit, first_operand, openings, result) ==
    IF f > Len(first_operand.vertcnt) THEN {result}
    ELSE IF Degenerate(SubSeq(first_operand.verts, vit + 1, vit + first_operand.vertcnt[f]))
    THEN ExtrudedDifferenceFrom(f + 1, vit, first_operand, openings, result)
    ELSE UNION {ExtrudedDifferenceFrom(f + 1, vit + first_operand.vertcnt[f], first_operand,
                                       r[2], AppendMesh(result, r[1])) :
                   r \in FaceCuts(SubSeq(first_operand.verts, vit + 1,
                                         vit + first_operand.vertcnt[f]), openings)}

\* result = first_operand, then every face is appended again with the opening
\* cut out of it; profile is the mesh of the extruded solid in projection space
ProcessBooleanExtrudedAreaSolidDifferenceResults(profile, first_operand) ==
    ExtrudedDifferenceFrom(1, 0, first_operand, TempOpenings(<<profile>>), first_operand)

\* the half space with the agreement flag not set keeps the other side
Mirrored(m) == [m EXCEPT !.verts = Tuple([k \in 1..Len(m.verts) |->
                                    <<m.verts[k][1], m.verts[k][2], -m.verts[k][3]>>])]

\* the second operand is applied to the mesh of the first
SecondOperandResults(second, result, first_operand) ==
    IF second.kind = "halfspace"
    THEN {IF ~second.plane THEN result
          ELSE IF second.agreement
          THEN ProcessBooleanHalfSpaceDifferenceResult(first_operand, result)
          ELSE Mirrored(ProcessBooleanHalfSpaceDifferenceResult(Mirrored(first_operand),
                                                                Mirrored(result)))}
    ELSE ProcessBooleanExtrudedAreaSolidDifferenceResults(second.profile, first_operand)

\* ProcessBoolean without the test of the operator at line 2274, for swept first
\* operands
ProcessBooleanResults_AnyOperator(boolean, result) ==
    IF boolean.SecondOperand.kind \notin {"halfspace", "extruded"} THEN {result}
    ELSE IF boolean.FirstOperand.kind = "swept"
    THEN SecondOperandResults(boolean.SecondOperand, result,
                              ExtrudedSolid(boolean.FirstOperand.in, boolean.FirstOperand.area))
    ELSE {result}

\* ProcessBoolean(boolean, result, conv): the set of meshes result can be after
\* the call.  A first operand is obtained into an empty mesh.
RECURSIVE ProcessBooleanResults(_, _)
ProcessBooleanResults(boolean, result) ==
    IF boolean.Operator # "DIFFERENCE" THEN {result}
    ELSE IF boolean.SecondOperand.kind \notin {"halfspace", "extruded"} THEN {result}
    ELSE IF boolean.FirstOperand.kind = "boolean"
    THEN UNION {SecondOperandResults(boolean.SecondOperand, result, first_operand) :
                   first_operand \in ProcessBooleanResults(boolean.FirstOperand, EmptyMesh)}
    ELSE IF boolean.FirstOperand.kind = "swept"
    THEN SecondOperandResults(boolean.SecondOperand, result,
                              ExtrudedSolid(boolean.FirstOperand.in, boolean.FirstOperand.area))
    ELSE {result}

\* ProcessPolygonBoundaries for a face of one bound at most: the mesh of the
\* bound is appended as it is
ProcessPolygonBoundaries(result, inmesh) ==
    IF inmesh.vertcnt = <<>> THEN result ELSE AppendMesh(result, inmesh)

\* ProcessConnectedFaceSet: every face is the polyloop of its only bound
RECURSIVE ProcessConnectedFaceSetResult(_, _, _)
ProcessConnectedFaceSetResult(faces, f, result) ==
    IF f > Len(faces) THEN result
    ELSE ProcessConnectedFaceSetResult(faces, f + 1,
             ProcessPolygonBoundaries(result, ProcessPolyloopResult(faces[f], EmptyMesh).mesh))

\* TempMesh::RemoveAdjacentDuplicates on one face: equal neighbours go, and
\* the last vertex when it equals the first
FrontAndBack(face) ==
    IF Len(face) > 1 /\ FuzzyVectorCompare(face[1], face[Len(face)])
    THEN DropLast(face, 1) ELSE face

RemoveAdjacentDuplicatesFace(face) == IF Len(face) < 2 THEN face ELSE FrontAndBack(Unique(face))

\* TempMesh::RemoveDegenerates on one face: a face without area goes
RemoveDegeneratesFace(face) == IF Degenerate(face) THEN <<>> ELSE face

RECURSIVE CleanedFrom(_, _, _)
CleanedFrom(m, f, out) ==
    IF f > Len(m.vertcnt) THEN out
    ELSE CleanedFrom(m, f + 1,
             AppendFace(out, RemoveDegeneratesFace(RemoveAdjacentDuplicatesFace(FaceVerts(m, f)))))

\* meshtmp->RemoveAdjacentDuplicates(); meshtmp->RemoveDegenerates();
Cleaned(m) == CleanedFrom(m, 1, EmptyMesh)

\* the end of ProcessGeometricItem: the mesh becomes an opening of the parent
\* element, or a mesh of the scene when TempMesh::ToMesh finds vertices in it.
\* conv.meshes holds the meshes as they are handed to FixupFaceOrientation and
\* ToMesh.
Registered(conv, geo, cleaned) ==
    IF conv.collect
    THEN [conv EXCEPT !.collect_openings = Append(@, cleaned), !.ret = TRUE]
    ELSE IF cleaned.verts = <<>> THEN [conv EXCEPT !.ret = FALSE]
    ELSE [conv EXCEPT !.mesh_indices = Append(@, Len(conv.meshes)),
                      !.meshes = Append(@, [mesh |-> cleaned, fix_orientation |-> TRUE]),
                      !.ret = TRUE]

\* the mesh the variant of the item fills; bounding boxes and unknown entities
\* return before anything is done
Dispatched(geo) ==
    IF geo.kind = "faceset" THEN {ProcessConnectedFaceSetResult(geo.faces, 1, EmptyMesh)}
    ELSE IF geo.kind = "swept" THEN {ExtrudedSolid(geo.in, geo.area)}
    ELSE IF geo.kind = "boolean" THEN ProcessBooleanResults(geo, EmptyMesh)
    ELSE {EmptyMesh}

Finished(conv, geo, meshtmp) ==
    IF geo.kind \in {"boundingbox", "unknown"} THEN [conv EXCEPT !.ret = FALSE]
    ELSE Registered(conv, geo, Cleaned(meshtmp))

-----------------------------------------------------------------------------
(* Specification of the geometric items: the items of one product are handed
   to ProcessGeometricItem one after the other *)

\* the point, the line and the square of ExtrudeProfiles as swept area solids
SweptItems ==
    {[kind |-> "swept", in |-> in, area |-> Len(in) > 2] :
        in \in {p \in ExtrudeProfiles : Len(p) \in {1, 2, 4}}}

Operators == {"DIFFERENCE", "UNION"}

HalfSpace(plane, agreement) == [kind |-> "halfspace", plane |-> plane, agreement |-> agreement]

\* an extruded area solid over the window of C6
ExtrudedWindow == [kind |-> "extruded", profile |-> BoxProfile(Box(1, 1, GridN - 1, GridN - 1))]

\* half spaces with and without a plane as base surface, the extruded solid,
\* and an entity of another type
SecondOperands ==
    {HalfSpace(TRUE, TRUE), HalfSpace(TRUE, FALSE), HalfSpace(FALSE, TRUE), ExtrudedWindow,
     [kind |-> "other"]}

BooleanResults(firsts, seconds) ==
    {[kind |-> "boolean", Operator |-> op, FirstOperand |-> first, SecondOperand |-> second] :
        op \in Operators, first \in firsts, second \in seconds}

\* the boolean results that are first operands of other boolean results: the
\* extruded square clipped by a half space, and the union of the two
InnerBooleans ==
    BooleanResults({s \in SweptItems : s.area}, {HalfSpace(TRUE, TRUE)})

\* the profile of an L-shaped area given as a closed polyline: the first point
\* is there again as the last one
ClosedProfile ==
    << <<0, 0, 0>>, <<One, 0, 0>>, <<One, 4, 0>>, <<4, 4, 0>>, <<4, One, 0>>, <<0, One, 0>>,
       <<0, 0, 0>> >>

FirstOperandItems ==
    {[kind |-> "other"], [kind |-> "swept", in |-> ClosedProfile, area |-> TRUE]}
        \cup {s \in SweptItems : Len(s.in) > 1} \cup InnerBooleans

\* the polyloops of the faces of a face set: no point, one point, a triangle
FaceLoops == {<<>>, << <<0, 0, 0>> >>, << <<0, 0, 0>>, <<One, 0, 0>>, <<0, One, 0>> >>}

FaceSets == {[kind |-> "faceset", faces |-> faces] :
                faces \in UNION {[1..n -> FaceLoops] : n \in 1..MaxFaces}}

Items ==
    {[kind |-> "boundingbox"], [kind |-> "unknown"]}
        \cup SweptItems \cup FaceSets \cup BooleanResults(FirstOperandItems, SecondOperands)

NoItem == [kind |-> "none"]

\* conv and mesh_indices before the first item; collect tells whether
\* conv.collect_openings is set
Conv(collect) ==
    [kind |-> "conv", collect |-> collect, collect_openings |-> <<>>, meshes |-> <<>>,
     mesh_indices |-> <<>>, ret |-> FALSE, geo |-> NoItem, before |-> <<>>, items |-> 0]

InitItems ==
    /\ mode = "items"
    /\ pc = "idle"
    /\ bbs = <<>>
    /\ mesh = EmptyMesh
    /\ wall = NoWall
    /\ solid \in {Conv(collect) : collect \in BOOLEAN}

\* ProcessGeometricItem(geo, mesh_indices, conv); mesh is meshtmp as the
\* variant of the item left it, before holds what the call found
ProcessGeometricItem ==
    /\ mode = "items" /\ solid.items < MaxItems
    /\ \E geo \in Items : \E meshtmp \in Dispatched(geo) :
          /\ mesh' = meshtmp
          /\ solid' = [Finished(solid, geo, meshtmp) EXCEPT
                          !.geo = geo, !.items = @ + 1,
                          !.before = <<solid.mesh_indices, solid.meshes, solid.collect_openings>>]
    /\ pc' = "returned"
    /\ UNCHANGED <<mode, bbs, wall>>

NextItems == ProcessGeometricItem

SpecItems == InitItems /\ [][NextItems]_vars

-----------------------------------------------------------------------------
(* Specification of the contour cleanup: CleanupWindowContours is called for
   the contours the loop over the openings can leave, which overlap nowhere *)

\* the contours of one call
MaxContours == 3

\* an opening of two boxes one above the other: the faces that face the wall
\* are two squares, and the contour collected from them runs through both
SplitProfiles ==
    {Reverse(Rect(Box(x, 1, x + 1, 2))) \o Reverse(Rect(Box(x, 3, x + 1, 4))) : x \in 0..(GridN - 1)}

\* a face of three points on a diagonal: it has an extent and no area
DiagonalProfiles ==
    {<< <<2 * x, 2 * y>>, <<2 * x + 2, 2 * y + 2>>, <<2 * x + 4, 2 * y + 4>> >> :
        x \in 0..(GridN - 2), y \in 0..(GridN - 2)}

\* the contours that pass the gates of the loop over the openings: more than 2
\* points, and an extent with an area
CollectedContours ==
    {ProjectedWindowContour(CollectContour(p, 1, <<>>), ClampedExtent(p)) :
        p \in {q \in OpeningProfiles \cup SplitProfiles \cup DiagonalProfiles :
                  Len(CollectContour(q, 1, <<>>)) > 2 /\ ~AreaBelowGate(ClampedExtent(q))}}

NowhereOverlapping(contours) ==
    \A i \in 1..Len(contours) : \A j \in 1..Len(contours) :
        i # j => ~BoundingBoxesOverlapping(contours[i].bb, contours[j].bb)

ContourVectors ==
    {contours \in UNION {[1..n -> CollectedContours] : n \in 1..MaxContours} :
        NowhereOverlapping(contours)}

InitCleanup ==
    /\ mode = "cleanup"
    /\ pc = "contours"
    /\ bbs = <<>>
    /\ mesh = EmptyMesh
    /\ wall \in {[NoWall EXCEPT !.contours = contours] : contours \in ContourVectors}
    /\ solid = NoSolid

\* CleanupWindowContours(contours)
CleanupContours ==
    /\ mode = "cleanup" /\ pc = "contours"
    /\ wall' = [wall EXCEPT !.contours = CleanupWindowContours(@)]
    /\ pc' = "cleaned"
    /\ UNCHANGED <<mode, bbs, mesh, solid>>

NextCleanup == CleanupContours

SpecCleanup == InitCleanup /\ [][NextCleanup]_vars

-----------------------------------------------------------------------------
(* Specification of Quadrify alone: every vector of pairwise non-overlapping *)
(* boxes with corners k/GridN.                                               *)

\* the coordinates the boxes handed to Quadrify are drawn from: both borders of
\* the unit square and two grid lines inside it
QuadCoords == {0, 2, 4, One}

RawBoxes ==
    {BoundingBox(<<x0, y0>>, <<x1, y1>>) :
        x0 \in QuadCoords, y0 \in QuadCoords, x1 \in QuadCoords, y1 \in QuadCoords}

ProperRawBoxes == {bb \in RawBoxes : bb.first[1] < bb.second[1] /\ bb.first[2] < bb.second[2]}

PairwiseDisjoint(b) ==
    \A i \in 1..Len(b) : \A j \in 1..Len(b) :
        i # j => ~BoundingBoxesOverlapping(b[i], b[j])

InitQuadrify ==
    /\ mode = "quadrify"
    /\ pc = "boxes"
    /\ bbs = <<>>
    /\ mesh = EmptyMesh
    /\ wall = NoWall
    /\ solid = NoSolid

\* the caller collects one more box (Quadrify(contours, curmesh), bbs.push_back)
PushBox ==
    /\ mode = "quadrify" /\ pc = "boxes"
    /\ Len(bbs) < MaxBoxes
    /\ \E bb \in ProperRawBoxes :
          /\ PairwiseDisjoint(Append(bbs, bb))
          /\ bbs' = Append(bbs, bb)
    /\ UNCHANGED <<mode, pc, mesh, wall, solid>>

Quadrify ==
    /\ mode = "quadrify" /\ pc = "boxes"
    /\ mesh' = QuadrifyBoxes(bbs)
    /\ pc' = "done"
    /\ UNCHANGED <<mode, bbs, wall, solid>>

NextQuadrify == PushBox \/ Quadrify

SpecQuadrify == InitQuadrify /\ [][NextQuadrify]_vars

-----------------------------------------------------------------------------
(* Every mesh-producing operation: the three specifications side by side *)

InitAll == InitQuadrify \/ InitOpenings \/ InitSolids

NextAll == NextQuadrify \/ NextOpenings \/ NextSolids

SpecAll == InitAll /\ [][NextAll]_vars

-----------------------------------------------------------------------------
(* Claims about Quadrify *)

\* C2: for pairwise non-overlapping boxes in the unit square, no quad emitted by
\* Quadrify overlaps the interior of any box: every box stays a hole.
C2_BoxesStayHoles ==
    (mode = "quadrify" /\ pc = "done") =>
        \A f \in 1..Len(mesh.vertcnt) : \A i \in 1..Len(bbs) :
            ~BoundingBoxesOverlapping(Extent(FaceVerts(mesh, f)), bbs[i])

\* C2 witness: Quadrify has run on two or more boxes and emitted quads
C2_Witness ==
    mode = "quadrify" /\ pc = "done" /\ Len(bbs) >= 2 /\ Len(mesh.vertcnt) >= 3

\* C3: for pairwise non-overlapping boxes in the unit square, the quads emitted
\* by Quadrify are pairwise interior-disjoint and, together with the boxes,
\* cover the whole unit square.
C3_QuadsTileTheRest ==
    (mode = "quadrify" /\ pc = "done") =>
        \A c \in Cells :
            /\ Cardinality(QuadsCovering(mesh, c)) <= 1
            /\ \/ QuadsCovering(mesh, c) # {}
               \/ \E i \in 1..Len(bbs) : CellInBox(bbs[i], c[1], c[2])

\* the disjointness half of C3 alone
QuadsInteriorDisjoint ==
    (mode = "quadrify" /\ pc = "done") =>
        \A c \in Cells : Cardinality(QuadsCovering(mesh, c)) <= 1

-----------------------------------------------------------------------------
(* Claims about GenerateOpenings *)

Profiles(openings) == [c \in 1..Len(openings) |-> openings[c].profile]

\* the grid cells no face of the mesh lies on
Uncut(m) == {c \in Cells : QuadsCovering(m, c) = {}}

BoxCells(bb) == {c \in Cells : CellInBox(bb, c[1], c[2])}

\* a call of GenerateOpenings has returned, the plane of the face was derived
\* and every opening of the wall reaches the face
AllApplied ==
    /\ mode = "openings" /\ pc = "returned"
    /\ wall.rejected = 0 /\ wall.path # "noplane"

\* C4: after the per-opening loop of GenerateOpenings the bounding boxes of the
\* accepted contours are pairwise non-overlapping, touching edges counting as
\* non-overlapping.
C4_AcceptedBoxesDisjoint ==
    (mode = "openings" /\ pc = "returned" /\ wall.path \in {"quadrify", "nocontours"}) =>
        \A i, j \in 1..Len(wall.contours) :
            i # j => ~BoundingBoxesOverlapping(wall.contours[i].bb, wall.contours[j].bb)

\* the two openings of C5 on the grid: the x values 0.1 < 0.4 < 0.5 < 0.8 are
\* the grid lines 1 < 2 < 3 < GridN - 1, the y values 0.2 < 0.6 the lines 1 < 2
C5_Openings == << BoxProfile(Box(1, 1, 3, 2)), BoxProfile(Box(2, 1, GridN - 1, 2)) >>

\* the outline spans the box, up to the rounding of the clipper round trip
SpansBox(contour, bb) ==
    /\ SameGridLine(Extent(contour).first[1], bb.first[1])
    /\ SameGridLine(Extent(contour).first[2], bb.first[2])
    /\ SameGridLine(Extent(contour).second[1], bb.second[1])
    /\ SameGridLine(Extent(contour).second[2], bb.second[2])

C6_Opening == << BoxProfile(Box(1, 1, GridN - 1, GridN - 1)) >>

\* the boxes overlap by more than the rounding of the clipper round trip
OverlapOnGrid(a, b) ==
    /\ GridLine(a.first[1]) < GridLine(b.second[1]) /\ GridLine(a.second[1]) > GridLine(b.first[1])
    /\ GridLine(a.first[2]) < GridLine(b.second[2]) /\ GridLine(a.second[2]) > GridLine(b.first[2])

NoFaceInHole(bb) ==
    \A f \in 1..Len(mesh.vertcnt) : ~OverlapOnGrid(Extent(FaceVerts(mesh, f)), bb)

AllQuads == \A f \in 1..Len(mesh.vertcnt) : mesh.vertcnt[f] = 4

\* the opposite side of the wall was processed before and left its points
OtherSideKnown ==
    /\ wall.generate_connection_geometry
    /\ \E c \in 1..Len(wall.openings) :
          \E k \in 1..Len(wall.openings[c].wallPoints) :
              wall.openings[c].wallPoints[k][3] # wall.side

\* C6 as stated: the side with the square opening is decomposed into 8 quads
\* around the hole, and no face lies inside the hole.
C6_EightQuadsAroundHole ==
    (AllApplied /\ Profiles(wall.openings) = C6_Opening) =>
        /\ Len(mesh.vertcnt) = 8 /\ AllQuads
        /\ NoFaceInHole(Box(1, 1, GridN - 1, GridN - 1))

\* C6 amended: the side with the square opening is decomposed into 4 quads
\* around the hole, no face lies inside the hole, and only when the opposite
\* side of the wall was processed before are there 4 more quads, which connect
\* the hole with the points of that side.
C6_FourQuadsAroundHole ==
    (AllApplied /\ Profiles(wall.openings) = C6_Opening) =>
        /\ Len(mesh.vertcnt) = (IF OtherSideKnown THEN 8 ELSE 4) /\ AllQuads
        /\ NoFaceInHole(Box(1, 1, GridN - 1, GridN - 1))

\* C6 witness: the square opening was applied to the first side of the wall
C6_Witness ==
    /\ AllApplied /\ Profiles(wall.openings) = C6_Opening
    /\ wall.side = 1 /\ wall.path = "quadrify" /\ Len(mesh.vertcnt) = 4

WallPoints(openings) == [c \in 1..Len(openings) |-> openings[c].wallPoints]

\* C7: whenever GenerateOpenings returns false the face mesh has the vertices
\* and face counts it had before the call, and no opening's wallPoints changed.
C7_FalseLeavesFaceAlone ==
    [][(pc = "side" /\ pc' = "returned" /\ ~wall'.ret) =>
          /\ mesh' = mesh
          /\ WallPoints(wall'.openings) = WallPoints(wall.openings)]_vars

\* C7 witness: the fallback failed on the second side of a wall whose openings
\* hold the points of the first side
C7_Witness ==
    /\ mode = "openings" /\ pc = "returned" /\ ~wall.ret /\ wall.path = "poly2tri"
    /\ wall.side = 2
    /\ \E c \in 1..Len(wall.openings) : wall.openings[c].wallPoints # <<>>

-----------------------------------------------------------------------------
(* Claims about the solids and about all meshes *)

Consistent(m) == SumSeq(m.vertcnt) = Len(m.verts)

\* C1: after every mesh-producing operation (ProcessPolyloop, linear extrusion,
\* revolution, Quadrify, InsertWindowContours, CleanupOuterContour,
\* CloseWindows, half-space clipping) the per-face vertex counts of the mesh
\* sum up to the number of its vertices.
C1_CountsSumToVertices ==
    /\ Consistent(mesh)
    /\ \A k \in 1..Len(wall.stages) : Consistent(wall.stages[k])

\* C1 witness: on the second side of a wall InsertWindowContours has added
\* faces to the quads and CloseWindows has added faces to the clipped mesh
C1_Witness ==
    /\ mode = "openings" /\ pc = "returned" /\ wall.path = "quadrify" /\ wall.side = 2
    /\ Len(wall.stages[2].vertcnt) > Len(wall.stages[1].vertcnt)
    /\ Len(mesh.vertcnt) > Len(wall.stages[3].vertcnt)

\* an extrusion has run through its faces
Extruded ==
    /\ mode = "solids" /\ pc = "extruded" /\ solid.kind = "extrusion"
    /\ Len(solid.in) > 1 /\ solid.deep

\* the faces of the extrusion of a profile without openings: the sides, then
\* the two caps of an area
PlainSides(in) ==
    [k \in 1..(4 * Len(in)) |->
        LET i == (k - 1) \div 4
            j == IF (k - 1) % 4 \in {0, 1} THEN i + 1 ELSE ((i + 1) % Len(in)) + 1
        IN  IF (k - 1) % 4 \in {1, 2} THEN Plus(in[j], Dir) ELSE in[j]]

PlainCaps(in) ==
    [k \in 1..(2 * Len(in)) |->
        IF k <= Len(in) THEN in[Len(in) + 1 - k] ELSE Plus(in[2 * Len(in) + 1 - k], Dir)]

PlainExtrusion(in, has_area) ==
    [verts |-> PlainSides(in) \o (IF has_area THEN PlainCaps(in) ELSE <<>>),
     vertcnt |-> [f \in 1..Len(in) |-> 4] \o (IF has_area THEN <<Len(in), Len(in)>> ELSE <<>>)]

\* C8: when the opening list of a linear extrusion is empty or no opening is
\* accepted on any face, the mesh has the faces, in their order, of the
\* extrusion without openings.
C8_NoOpeningAcceptedSameFaces ==
    (Extruded /\ solid.sides_with_openings = 0 /\ solid.sides_with_v_openings = 0) =>
        mesh = PlainExtrusion(solid.in, solid.has_area)

\* C8 witness: the only opening of an extruded area has a bounding box below
\* the area gate, and no face took it
C8_Witness ==
    /\ Extruded /\ solid.has_area
    /\ Profiles(wall.openings) = << SliverProfile >>
    /\ solid.sides_with_openings = 0 /\ solid.sides_with_v_openings = 0
    /\ wall.path = "nocontours"

\* C9: the linear extrusion of an AREA profile of n >= 3 vertices, of a depth
\* of 1e-3 or more and without openings, appends n side faces of 4 vertices
\* followed by 2 cap faces of n vertices.
C9_SidesThenCaps ==
    (Extruded /\ solid.has_area /\ wall.openings = <<>>) =>
        /\ mesh.vertcnt = [f \in 1..Len(solid.in) |-> 4] \o <<Len(solid.in), Len(solid.in)>>
        /\ Len(mesh.verts) = 6 * Len(solid.in)

\* C9 witness: the profile of 4 vertices has given 6 faces
C9_Witness ==
    /\ Extruded /\ solid.has_area /\ wall.openings = <<>>
    /\ Len(solid.in) = 4 /\ Len(mesh.vertcnt) = 6

\* a profile of 2 vertices was revolved by the full angle 2*pi
FullTurnOfALine ==
    /\ mode = "solids" /\ pc = "revolved" /\ solid.kind = "revolution"
    /\ solid.size = 2 /\ solid.max_angle = 62831853

AllFacesQuads == \A f \in 1..Len(mesh.vertcnt) : mesh.vertcnt[f] = 4

\* C10 as stated: revolving a profile of 2 vertices by the full angle 2*pi
\* gives exactly 16 side quads and no cap faces.
C10_SixteenSideQuads ==
    FullTurnOfALine => (Len(mesh.vertcnt) = 16 /\ AllFacesQuads)

\* C10 amended: revolving a profile of 2 vertices by the full angle 2*pi gives
\* 2 side quads for each of the 63 segments, 16 * 2*pi / AI_MATH_HALF_PI_F cut
\* off to a whole number, and no cap faces.
C10_QuadsPerSegment ==
    FullTurnOfALine =>
        /\ SegmentCount(solid.max_angle) = 63
        /\ Len(mesh.vertcnt) = 2 * 63 /\ AllFacesQuads
        /\ Len(mesh.verts) = 4 * Len(mesh.vertcnt)

\* C10 witness: the full turn of the line was made
C10_Witness == FullTurnOfALine /\ Len(mesh.vertcnt) > 16

\* a revolution by an angle of 1e-3 or more has run
Revolution ==
    /\ mode = "solids" /\ pc = "revolved" /\ solid.kind = "revolution"
    /\ solid.size > 1 /\ Abs(solid.max_angle) >= 10000

\* the side faces of the revolved mesh: all faces but the two caps of an area
SideFaces ==
    Len(mesh.vertcnt) - (IF solid.area /\ solid.size > 2
                            /\ Abs(solid.max_angle) <= NearlyFullTurn THEN 2 ELSE 0)

\* C11 as stated: for every angle theta of 1e-3 or more the number of segments
\* is max(2, ceil(16 * |theta| / (pi/2))) and the number of side faces is that
\* count times the number of profile vertices.  pi/2 itself is the angle one
\* step below its float AI_MATH_HALF_PI_F.
C11_CeilingOfSegments ==
    Revolution =>
        SideFaces = solid.size * Max2(2, (16 * Abs(solid.max_angle) + AI_MATH_HALF_PI_F - 2)
                                            \div (AI_MATH_HALF_PI_F - 1))

\* C11 amended: the number of segments is max(2, 16 * |theta| / AI_MATH_HALF_PI_F
\* cut off to a whole number), and the number of side faces, all of them
\* quads, is that count times the number of profile vertices.
C11_TruncatedSegments ==
    Revolution =>
        /\ SideFaces = solid.size * Max2(2, (16 * Abs(solid.max_angle)) \div AI_MATH_HALF_PI_F)
        /\ \A f \in 1..SideFaces : mesh.vertcnt[f] = 4

\* C11 witness: a quarter turn of a triangle has given 15 segments of 3 quads
C11_Witness ==
    /\ Revolution /\ solid.size = 3 /\ solid.max_angle = AI_MATH_HALF_PI_F - 1
    /\ SideFaces = 45

-----------------------------------------------------------------------------
(* Claims about the half-space clipping *)

\* a half-space clipping has run
HalfSpaceClipped == mode = "solids" /\ pc = "clipped" /\ solid.kind = "halfspace"

\* v is a vertex of the operand strictly on the kept side
KeptVertex(v, operand) ==
    Height(v) > 0 /\ \E k \in 1..Len(operand.verts) : operand.verts[k] = v

\* v lies in the plane and on the edge from e0 to e1, which meets the plane
OnCrossingEdge(v, e0, e1) ==
    /\ Height(v) = 0 /\ Height(e0) * Height(e1) <= 0
    /\ v \in {e0, e1, <<Min2(e0[1], e1[1]), Max2(e0[2], e1[2]), 0>>}

\* v is the point where an edge of a face of the operand meets the plane
EdgePoint(v, operand) ==
    \E f \in 1..Len(operand.vertcnt) : \E i \in 1..operand.vertcnt[f] :
        OnCrossingEdge(v, FaceVerts(operand, f)[i],
                          FaceVerts(operand, f)[(i % operand.vertcnt[f]) + 1])

\* C12: every vertex of the result of the half-space clipping is a vertex of the
\* first operand strictly on the kept side or the point where an edge of the
\* operand meets the plane; no vertex of the removed side is in the result.
C12_KeptSideOrCutPoint ==
    HalfSpaceClipped =>
        \A k \in 1..Len(mesh.verts) :
            /\ Height(mesh.verts[k]) >= 0
            /\ KeptVertex(mesh.verts[k], solid.first_operand)
                   \/ EdgePoint(mesh.verts[k], solid.first_operand)

\* C12 witness: the plane cuts a face; a vertex of the operand and a new point
\* on an edge are in the result, a vertex of the removed side is not
C12_Witness ==
    /\ HalfSpaceClipped
    /\ \E k \in 1..Len(mesh.verts) : Height(mesh.verts[k]) > 0
    /\ \E k \in 1..Len(mesh.verts) : mesh.verts[k][1] < mesh.verts[k][2]
    /\ \E k \in 1..Len(solid.first_operand.verts) : Height(solid.first_operand.verts[k]) < 0

\* face f of the mesh lies in the plane
FaceInPlane(f) == \A k \in 1..mesh.vertcnt[f] : Height(FaceVerts(mesh, f)[k]) = 0

\* C13: clipping the closed cube of side 2 around the origin by the plane
\* n = (1,0,0), p = (0,0,0) adds, next to the clipped faces of the cube, one new
\* quad in the plane x = 0 that closes the cut.
C13_CutFaceCloses ==
    (HalfSpaceClipped /\ solid.first_operand = Cube) =>
        \E f \in 1..Len(mesh.vertcnt) : mesh.vertcnt[f] = 4 /\ FaceInPlane(f)

\* no vertex of the face equals, within the tolerance, the one after it, the
\* first one being the one after the last
NoDuplicateNeighbours(face) ==
    \A i \in 1..Len(face) : ~FuzzyVectorCompare(face[i], face[(i % Len(face)) + 1])

\* C14: every face the half-space clipping emits has 3 vertices or more and no
\* two vertices that follow each other, the last and the first included, are
\* equal within the tolerance; a face left with fewer than 3 vertices adds
\* neither a count nor vertices.
C14_FacesCleanedUp ==
    HalfSpaceClipped =>
        /\ Consistent(mesh)
        /\ \A f \in 1..Len(mesh.vertcnt) :
              mesh.vertcnt[f] >= 3 /\ NoDuplicateNeighbours(FaceVerts(mesh, f))

\* what C14 leaves when the last and the first vertex are not compared: every
\* face has 3 vertices or more, and no vertex equals the next one of its face
C14_NoDuplicateInSequence ==
    HalfSpaceClipped =>
        /\ Consistent(mesh)
        /\ \A f \in 1..Len(mesh.vertcnt) :
              /\ mesh.vertcnt[f] >= 3
              /\ \A i \in 1..(mesh.vertcnt[f] - 1) :
                    ~FuzzyVectorCompare(FaceVerts(mesh, f)[i], FaceVerts(mesh, f)[i + 1])

-----------------------------------------------------------------------------
(* Claims about the polyloops, the boolean results and the geometric items *)

\* C17: ProcessPolyloop on a loop of 0 or 1 points returns false and leaves the
\* mesh as it was before the call: no vertex and no face count, in particular
\* no count of 0, is added.
C17_ShortLoopLeavesMesh ==
    [][(mode = "solids" /\ pc' = "polyloop" /\ Len(solid'.loop) <= 1)
          => (~solid'.ret /\ mesh' = mesh)]_vars

\* what C17 leaves for a loop of 1 point: the call returns false and takes the
\* point and its count back
C17_OnePointTakenBack ==
    [][(mode = "solids" /\ pc' = "polyloop" /\ Len(solid'.loop) = 1)
          => (~solid'.ret /\ mesh' = mesh)]_vars

\* the call of ProcessGeometricItem has returned for the item solid.geo
ItemReturned == mode = "items" /\ pc = "returned"

\* the combinations ProcessBoolean supports
Supported(boolean) ==
    /\ boolean.Operator = "DIFFERENCE"
    /\ boolean.SecondOperand.kind \in {"halfspace", "extruded"}
    /\ boolean.FirstOperand.kind \in {"boolean", "swept"}

\* C15: ProcessBoolean leaves result as it was whenever the operator is not
\* DIFFERENCE, the second operand is neither a half space nor an extruded area
\* solid, or the first operand is neither a boolean result nor a swept area
\* solid: geometry is produced for the supported combinations only.
C15_UnsupportedLeavesResult ==
    (ItemReturned /\ solid.geo.kind = "boolean" /\ ~Supported(solid.geo)) => mesh = EmptyMesh

\* a union of the extruded square and a half space with a plane has left the
\* mesh empty
C15_Witness ==
    /\ ItemReturned /\ solid.geo.kind = "boolean"
    /\ solid.geo.Operator = "UNION"
    /\ solid.geo.FirstOperand.kind = "swept" /\ solid.geo.FirstOperand.area
    /\ solid.geo.SecondOperand = HalfSpace(TRUE, TRUE)
    /\ mesh = EmptyMesh

\* the call changed neither mesh_indices, conv.meshes nor conv.collect_openings
ItemChangedNothing == solid.before = <<solid.mesh_indices, solid.meshes, solid.collect_openings>>

\* C16: for a bounding box, an unknown entity, or a boolean result with an
\* unsupported operator or unsupported operands, ProcessGeometricItem returns
\* false and changes neither mesh_indices, conv.meshes nor
\* conv.collect_openings, whether or not openings are collected.
C16_NothingForUnsupportedItems ==
    (ItemReturned /\ (\/ solid.geo.kind \in {"boundingbox", "unknown"}
                      \/ solid.geo.kind = "boolean" /\ ~Supported(solid.geo)))
        => (~solid.ret /\ ItemChangedNothing)

\* what C16 leaves: bounding boxes and unknown entities always, unsupported
\* boolean results when no openings are collected
C16_NothingUnlessCollecting ==
    (ItemReturned /\ (\/ solid.geo.kind \in {"boundingbox", "unknown"}
                      \/ solid.geo.kind = "boolean" /\ ~Supported(solid.geo) /\ ~solid.collect))
        => (~solid.ret /\ ItemChangedNothing)

-----------------------------------------------------------------------------
(* Claims about the contour cleanup and the wall points *)

\* the pieces the union of a contour with itself comes out in
Pieces(contour) == Len(ExPolygons(PolyCells(ToClipper(contour))))

\* the call of CleanupWindowContours
ContoursCleaned == mode = "cleanup" /\ pc' = "cleaned"

\* the contour list keeps its length, and every contour its place
SlotsKept(before, after) ==
    /\ Len(after) = Len(before)
    /\ \A i \in 1..Len(before) :
          after[i].bb = before[i].bb /\ after[i].contour \in {<<>>, before[i].contour}

\* C18: in the contour cleanup, a contour whose union with itself yields zero
\* or more than one piece is flagged invalid, its vertex list emptied; the
\* contour list keeps its length and every contour its position.
C18_InvalidUnlessOnePiece ==
    [][ContoursCleaned =>
          /\ SlotsKept(wall.contours, wall'.contours)
          /\ \A i \in 1..Len(wall.contours) :
                Pieces(wall.contours[i].contour) # 1 => wall'.contours[i].contour = <<>>]_vars

\* what C18 leaves: a contour is emptied when the union yields no piece, and
\* only then
C18_InvalidWhenNoPiece ==
    [][ContoursCleaned =>
          /\ SlotsKept(wall.contours, wall'.contours)
          /\ \A i \in 1..Len(wall.contours) :
                wall'.contours[i].contour = <<>> <=> Pieces(wall.contours[i].contour) = 0]_vars

\* a call of GenerateOpenings for a face of the wall
OpeningsGenerated == mode = "openings" /\ pc = "side" /\ pc' = "returned"

\* the openings contour it of the call came from
Originating(w, it) == {w.contours_to_openings[it][k] : k \in 1..Len(w.contours_to_openings[it])}

\* C19: over any sequence of GenerateOpenings calls for the faces of a wall,
\* wallPoints is appended to only in a CloseWindows call in which every
\* originating opening of the contour still has empty wallPoints; where some
\* originating opening has wall points already, no wallPoints list of the
\* contour is modified.
C19_WallPointsOnFirstSideOnly ==
    [][OpeningsGenerated =>
          /\ Len(wall'.openings) = Len(wall.openings)
          /\ \A o \in 1..Len(wall.openings) :
                wall'.openings[o].wallPoints # wall.openings[o].wallPoints
                    => \E it \in 1..Len(wall'.contours_to_openings) :
                          /\ o \in Originating(wall', it)
                          /\ \A k \in Originating(wall', it) : wall.openings[k].wallPoints = <<>>
          /\ \A it \in 1..Len(wall'.contours_to_openings) :
                (\E k \in Originating(wall', it) : wall.openings[k].wallPoints # <<>>)
                    => \A k \in Originating(wall', it) :
                          wall'.openings[k].wallPoints = wall.openings[k].wallPoints]_vars

\* the second side of a wall is done: every contour has wall points for its
\* openings, those of the first side and no more
C19_Witness ==
    /\ mode = "openings" /\ pc = "returned" /\ wall.side = 2 /\ wall.path = "quadrify"
    /\ wall.contours_to_openings # <<>>
    /\ \A it \in 1..Len(wall.contours_to_openings) :
          \A k \in Originating(wall, it) :
              Len(wall.openings[k].wallPoints) = Len(wall.contours[it].contour)

-----------------------------------------------------------------------------
(* Claims about the recursion of QuadrifyPart *)

\* the recursive calls below Quadrify(bbs, curmesh)
QuadrifyCalls == QuadrifyPartRun(<<0, 0>>, <<One, One>>, XYSortedField(bbs), bbs).calls

XRange(rect) == rect[2][1] - rect[1][1]
YRange(rect) == rect[2][2] - rect[1][2]

\* the rectangle of the call lies in the rectangle of its caller
Within(rect, caller) ==
    /\ caller[1][1] <= rect[1][1] /\ rect[1][1] < rect[2][1] /\ rect[2][1] <= caller[2][1]
    /\ caller[1][2] <= rect[1][2] /\ rect[1][2] < rect[2][2] /\ rect[2][2] <= caller[2][2]

StrictlySmaller(rect, caller) ==
    Within(rect, caller) /\ (XRange(rect) < XRange(caller) \/ YRange(rect) < YRange(caller))

\* C20: QuadrifyPart terminates: every recursive call is on a rectangle that
\* lies in the rectangle of its caller and is strictly smaller in its x-range
\* or in its y-range.
C20_CallsOnSmallerRectangles ==
    (mode = "quadrify" /\ pc = "done") =>
        \A k \in 1..Len(QuadrifyCalls) : StrictlySmaller(QuadrifyCalls[k][2], QuadrifyCalls[k][1])

\* Quadrify has run with calls of every kind: one with the y-range of its
\* caller, one with the x-range of its caller, and one below another call
C20_Witness ==
    /\ mode = "quadrify" /\ pc = "done"
    /\ \E k \in 1..Len(QuadrifyCalls) :
          YRange(QuadrifyCalls[k][2]) = YRange(QuadrifyCalls[k][1])
    /\ \E k \in 1..Len(QuadrifyCalls) :
          XRange(QuadrifyCalls[k][2]) = XRange(QuadrifyCalls[k][1])
    /\ \E k \in 1..Len(QuadrifyCalls) : QuadrifyCalls[k][1] # << <<0, 0>>, <<One, One>> >>

-----------------------------------------------------------------------------
(* Claims about the table of the openings of the contours *)

\* the call of GenerateOpenings has run its loop over the openings to the end
LoopDone == mode = "openings" /\ pc = "returned" /\ wall.path \in {"quadrify", "nocontours"}

\* the cells of the contour opening c projects to
OwnCells(opening) == PolyCells(ToClipper(CollectContour(opening.profile, 1, <<>>)))

\* opening c passes the gates of the loop: it lies to the face, has more than 2
\* points, an extent and an area
Accepted(opening, r) ==
    /\ r = "ok"
    /\ Len(opening.profile) > 2
    /\ Len(CollectContour(opening.profile, 1, <<>>)) > 2
    /\ ~AreaBelowGate(ClampedExtent(opening.profile))
    /\ OwnCells(opening) # {}

EntryOf(c2o, it) == {c2o[it][k] : k \in 1..Len(c2o[it])}

\* the table c2o is the table of the contours for the openings lying rel to
\* the face
TableOf(contours, c2o, openings, rel) ==
    /\ Len(c2o) = Len(contours)
    /\ \A it \in 1..Len(c2o) :
          /\ Cardinality(EntryOf(c2o, it)) = Len(c2o[it])
          /\ PolyCells(ToClipper(contours[it].contour))
                \subseteq UNION {OwnCells(openings[c]) : c \in EntryOf(c2o, it)}
          /\ \A c \in EntryOf(c2o, it) :
                OwnCells(openings[c]) \cap PolyCells(ToClipper(contours[it].contour)) # {}
    /\ \A c \in 1..Len(openings) :
          Cardinality({it \in 1..Len(c2o) : c \in EntryOf(c2o, it)})
              = IF Accepted(openings[c], rel[c]) THEN 1 ELSE 0

\* the ways the openings can lie to the face that end in the contours of the
\* state
RelsOfCall ==
    {rel \in RelChoices(Len(wall.openings), wall.check_intersection, MaxRejected) :
        LET acc == OpeningLoop(1, wall.openings, rel, wall.check_intersection,
                               wall.generate_connection_geometry,
                               [contours |-> <<>>, c2o |-> <<>>, exit |-> "end"])
        IN  acc.exit = "end" /\ acc.contours = wall.contours
                /\ acc.c2o = wall.contours_to_openings}

\* C21: with generate_connection_geometry set, after the openings have been
\* processed the contour-to-openings table is as long as the contour list,
\* entry i lists exactly the openings whose contours were merged into contour
\* i, and every accepted opening is in exactly one entry.
C21_TableOfOriginatingOpenings ==
    (LoopDone /\ wall.generate_connection_geometry) =>
        /\ RelsOfCall # {}
        /\ \A rel \in RelsOfCall :
              TableOf(wall.contours, wall.contours_to_openings, wall.openings, rel)

\* three openings have been processed, two of them merged into one contour
C21_Witness ==
    /\ LoopDone /\ wall.generate_connection_geometry
    /\ Len(wall.openings) = MaxOpenings
    /\ Len(wall.contours_to_openings) = 2
    /\ \E it \in 1..2 : Len(wall.contours_to_openings[it]) = 2

-----------------------------------------------------------------------------
(* Claims about the closing of the window contours *)

\* the contours CloseWindows sees in the call: those of the loop after the
\* cleanup pass
ClosedContours(w) == CleanupWindowContours(w.contours)

\* the last valid contour of the call, 0 if there is none
LastValid(contours) ==
    LET valid == {it \in 1..Len(contours) : contours[it].contour # <<>>}
    IN  IF valid = {} THEN 0 ELSE CHOOSE it \in valid : \A other \in valid : other <= it

\* the wall points the openings of contour it had before the call
OtherSide(before, after, it) == WallPointsOf(after.contours_to_openings[it], before.openings)

\* the final connection (last to first element) of the contour is a border
\* edge that is dropped
FinalEdgeDropped(contour) ==
    /\ OnOuterBorder(contour[1]) /\ OnOuterBorder(contour[Len(contour)])
    /\ AxisAligned(contour[Len(contour)], contour[1])

\* the edge from the first to the second point of the contour is a border
\* edge that is dropped
FirstEdgeDropped(contour) ==
    /\ OnOuterBorder(contour[1]) /\ OnOuterBorder(contour[2])
    /\ AxisAligned(contour[2], contour[1])

\* the call closes contour it against the other side of the wall and keeps
\* the final edge
ClosesLast(before, after, it) ==
    /\ after.path = "quadrify" /\ after.generate_connection_geometry
    /\ it = LastValid(ClosedContours(after)) /\ it > 0
    /\ OtherSide(before, after, it) # <<>>
    /\ Len(ClosedContours(after)[it].contour) > 1
    /\ ~FinalEdgeDropped(ClosedContours(after)[it].contour)

\* the pair (nearest wall point, unprojected contour point) of the first point
\* of contour it
FirstPair(before, after, it, z) ==
    LET world_point == WorldPoint(ClosedContours(after)[it].contour[1], z)
    IN  <<ClosestWallPoint(world_point, OtherSide(before, after, it)), world_point>>

LastTwo(verts) == SubSeq(verts, Len(verts) - 1, Len(verts))

\* C22: in the second-face call of CloseWindows, when the final edge of a
\* contour is not dropped, the two vertices appended to close it are the
\* (nearest wall point, unprojected contour point) pair of the first contour
\* point, also when earlier border edges of that contour have been dropped.
C22_ClosedWithFirstPair ==
    [][OpeningsGenerated =>
          \A it \in 1..Len(wall'.contours) :
              ClosesLast(wall, wall', it)
                  => LastTwo(mesh'.verts) = FirstPair(wall, wall', it, wall.side)]_vars

\* the same, where the edge from the first to the second contour point is not
\* a dropped border edge: the pair at vstart is then the one of the first point
C22_ClosedWithFirstPairUnlessFirstEdgeDropped ==
    [][OpeningsGenerated =>
          \A it \in 1..Len(wall'.contours) :
              (ClosesLast(wall, wall', it) /\ ~FirstEdgeDropped(ClosedContours(wall')[it].contour))
                  => LastTwo(mesh'.verts) = FirstPair(wall, wall', it, wall.side)]_vars

-----------------------------------------------------------------------------
(* Claims about the window contours that are their bounding boxes *)

\* GenerateOpenings has subdivided the face for its contours
FaceSubdivided == mode = "openings" /\ pc = "returned" /\ wall.path = "quadrify"

Corners(bb) ==
    {bb.first, bb.second, <<bb.first[1], bb.second[2]>>, <<bb.second[1], bb.first[2]>>}

\* the contour has exactly 4 vertices, the four corners of its bounding box
FourCorners(c) ==
    Len(c.contour) = 4 /\ {c.contour[n] : n \in 1..4} = Corners(c.bb)

Unfit(c) == ~FourCorners(c)

-----------------------------------------------------------------------------
(* Specification of the fixed-point bridge: the contour of one opening is
   turned into a ClipperLib polygon, on the main pipeline of GenerateOpenings
   or in TryAddOpenings_Poly2Tri *)

\* grid lines an opening may reach to: one step beyond the face on either side
Reach == {-1, 0, 2, GridN, GridN + 1}

\* openings that lie in the face, touch its border or stick out of it
ReachingProfiles ==
    {BoxProfile(Box(b[1], b[2], b[3], b[4])) :
        b \in {b \in Reach \X Reach \X Reach \X Reach : b[1] < b[3] /\ b[2] < b[4]}}

\* what the cast of a negative double to ulong64, which is undefined, gives
Builds == {"wraps", "saturates"}

\* static_cast<ulong64>(p * max_ulong64) stored into the long64 of an IntPoint:
\* a build that wraps the negative value gives the negative integer back in
\* the long64, a build that saturates gives 0
to_int64_On(build, v) ==
    IF v >= 0 THEN to_int64(v)
    ELSE IF build = "wraps" THEN 0 - to_int64(0 - v) ELSE 0

ToClipperOn(build, contour) ==
    Tuple([i \in 1..Len(contour) |->
              <<to_int64_On(build, contour[i][1]), to_int64_On(build, contour[i][2])>>])

\* pip = (pip - vmin) / vmax, with vmax the extent of the face already
FaceCoordinates(pip, vmin, vmax) ==
    <<((pip[1] - vmin[1]) * One) \div vmax[1], ((pip[2] - vmin[2]) * One) \div vmax[2]>>

\* the hole of an opening in TryAddOpenings_Poly2Tri, as floats
HoleContour(profile, vmin, vmax) ==
    Tuple([i \in 1..Len(profile) |-> FaceCoordinates(profile[i], vmin, vmax)])

Bridged(kind, contour, poly) == [kind |-> kind, contour |-> contour, poly |-> poly]

InitFixed ==
    /\ mode = "fixed"
    /\ pc = "opening"
    /\ bbs = <<>>
    /\ mesh = WallFace(1)
    /\ \E profile \in ReachingProfiles :
          wall = [NoWall EXCEPT !.openings = <<[profile |-> profile, wallPoints |-> <<>>]>>]
    /\ solid = NoSolid

\* GenerateOpenings collects the contour of the opening; CleanupWindowContour
\* hands it to ClipperLib
ContourToClipper ==
    /\ mode = "fixed" /\ pc = "opening"
    /\ \E build \in Builds :
          solid' = Bridged("contour", CollectContour(wall.openings[1].profile, 1, <<>>),
                           ToClipperOn(build, CollectContour(wall.openings[1].profile, 1, <<>>)))
    /\ pc' = "main"
    /\ UNCHANGED <<mode, bbs, mesh, wall>>

\* TryAddOpenings_Poly2Tri turns the opening into a hole of the face
HoleToClipper ==
    /\ mode = "fixed" /\ pc = "opening"
    /\ \E build \in Builds :
          solid' = Bridged("hole", HoleContour(wall.openings[1].profile, <<0, 0>>, <<One, One>>),
                           ToClipperOn(build, HoleContour(wall.openings[1].profile, <<0, 0>>, <<One, One>>)))
    /\ pc' = "fallback"
    /\ UNCHANGED <<mode, bbs, mesh, wall>>

NextFixed == ContourToClipper \/ HoleToClipper

SpecFixed == InitFixed /\ [][NextFixed]_vars

-----------------------------------------------------------------------------
(* Claims about the coordinates handed to to_int64 *)

InUnitRange(contour, poly) ==
    \A i \in 1..Len(contour) :
        /\ contour[i][1] \in 0..One /\ contour[i][2] \in 0..One
        /\ poly[i][1] \in 0..max_ulong64 /\ poly[i][2] \in 0..max_ulong64

\* C24: every coordinate converted to fixed point with to_int64, on the main
\* opening pipeline and on the Poly2Tri fallback alike, lies in [0,1], so the
\* scaled integer lies in [0, 1518500249] and is never negative.
C24_FixedPointInUnitRange ==
    (mode = "fixed" /\ pc \in {"main", "fallback"}) => InUnitRange(solid.contour, solid.poly)

\* the same on the main pipeline alone, behind the sanity rounding
C24_FixedPointInUnitRangeOnPipeline ==
    (mode = "fixed" /\ pc = "main") => InUnitRange(solid.contour, solid.poly)

-----------------------------------------------------------------------------
(* Claims about the difference to an extruded solid *)

\* ProcessGeometricItem has returned from the difference of a swept solid and
\* an extruded solid
ExtrudedDifferenceDone ==
    /\ ItemReturned /\ solid.geo.kind = "boolean" /\ solid.geo.Operator = "DIFFERENCE"
    /\ solid.geo.SecondOperand.kind = "extruded"
    /\ solid.geo.FirstOperand.kind = "swept"

\* the mesh of the first operand of the item
FirstOperandMesh(geo) == ExtrudedSolid(geo.FirstOperand.in, geo.FirstOperand.area)

FacesOf(m) == {FaceVerts(m, f) : f \in 1..Len(m.vertcnt)}

\* how often the face is in the mesh
Occurrences(face, m) == Cardinality({f \in 1..Len(m.vertcnt) : FaceVerts(m, f) = face})

\* C25: the result of the extruded-solid boolean difference contains each
\* face of the first operand at most once, with the opening cut out or, where
\* the opening does not apply, as it is: no face of the first operand is in
\* the result more often than in the operand, and where the result has the
\* pieces of a cut face, a face of the operand is missing in it.
C25_EachFaceOnce ==
    ExtrudedDifferenceDone =>
        /\ \A face \in FacesOf(FirstOperandMesh(solid.geo)) :
              Occurrences(face, mesh) <= Occurrences(face, FirstOperandMesh(solid.geo))
        /\ (FacesOf(mesh) \ FacesOf(FirstOperandMesh(solid.geo)) # {})
              => \E face \in FacesOf(FirstOperandMesh(solid.geo)) :
                    Occurrences(face, mesh) < Occurrences(face, FirstOperandMesh(solid.geo))


\* what holds instead: the result begins with the first operand as it is, and
\* the faces GenerateOpenings made follow it
C25_OperandKeptInFront ==
    ExtrudedDifferenceDone =>
        /\ SubSeq(mesh.verts, 1, Len(FirstOperandMesh(solid.geo).verts))
              = FirstOperandMesh(solid.geo).verts
        /\ SubSeq(mesh.vertcnt, 1, Len(FirstOperandMesh(solid.geo).vertcnt))
              = FirstOperandMesh(solid.geo).vertcnt


\* the faces of the result behind the copy of the first operand
AppendedFaces(m, first_operand) ==
    {FaceVerts(m, f) : f \in (Len(first_operand.vertcnt) + 1)..Len(m.vertcnt)}

\* the openings as a call of GenerateOpenings for a face of the first operand
\* can leave them: without wall points, or with those of the face
OpeningsLeft(first_operand, openings) ==
    {openings} \cup
    UNION {{r[2] : r \in FaceCuts(face, openings)} : face \in FacesOf(first_operand)}

\* what GenerateOpenings can make of the faces of the first operand
CutFaces(first_operand, left) ==
    UNION {FacesOf(r[1]) :
              r \in UNION {FaceCuts(face, openings) :
                              face \in FacesOf(first_operand), openings \in left}}

\* C26: in the extruded-solid boolean difference every face handed to
\* GenerateOpenings consists of exactly the vertices of one face of the first
\* operand, also behind a face skipped as degenerate: every face appended to
\* the result is what GenerateOpenings makes of a face of the first operand.
C26_FacesOfTheOperandHandedOn ==
    ExtrudedDifferenceDone =>
        AppendedFaces(mesh, FirstOperandMesh(solid.geo))
            \subseteq CutFaces(FirstOperandMesh(solid.geo),
                   OpeningsLeft(FirstOperandMesh(solid.geo),
                                TempOpenings(<<solid.geo.SecondOperand.profile>>)))

\* the same for the first operands without a degenerate face
C26_FacesHandedOnWhereNoneIsSkipped ==
    (ExtrudedDifferenceDone
        /\ \A face \in FacesOf(FirstOperandMesh(solid.geo)) : ~Degenerate(face)) =>
        AppendedFaces(mesh, FirstOperandMesh(solid.geo))
            \subseteq CutFaces(FirstOperandMesh(solid.geo),
                   OpeningsLeft(FirstOperandMesh(solid.geo),
                                TempOpenings(<<solid.geo.SecondOperand.profile>>)))

-----------------------------------------------------------------------------
(* Claims about the caps of a revolution *)

\* a revolution has emitted its two caps
CapsEmitted ==
    /\ Revolution /\ solid.area /\ solid.size > 2
    /\ Abs(solid.max_angle) <= NearlyFullTurn

\* the profile turned k times by delta
Ring(size, k) == {<<i - 1, k>> : i \in 1..size}

VertsOfFace(m, f) == {FaceVerts(m, f)[j] : j \in 1..m.vertcnt[f]}

\* C27: when a revolution emits caps, the start cap consists of the unrotated
\* profile vertices and the end cap of the profile vertices rotated by the full
\* angle theta, the vertices of the last ring of the last segment.
C27_CapsAtBothEnds ==
    CapsEmitted =>
        /\ VertsOfFace(mesh, Len(mesh.vertcnt)) = Ring(solid.size, 0)
        /\ VertsOfFace(mesh, Len(mesh.vertcnt) - 1)
              = Ring(solid.size, SegmentCount(solid.max_angle))

\* what holds instead: the end cap is the ring between the last two segments,
\* one delta short of theta
C27_EndCapOneSegmentShort ==
    CapsEmitted =>
        /\ VertsOfFace(mesh, Len(mesh.vertcnt)) = Ring(solid.size, 0)
        /\ VertsOfFace(mesh, Len(mesh.vertcnt) - 1)
              = Ring(solid.size, SegmentCount(solid.max_angle) - 1)
        /\ \E f \in 1..(Len(mesh.vertcnt) - 2) :
              Ring(solid.size, SegmentCount(solid.max_angle)) \cap VertsOfFace(mesh, f) # {}

-----------------------------------------------------------------------------
(* Specification of the mesh cache: the representation items of the products
   are handed to ProcessRepresentationItem one after the other; an item that
   several products share comes again *)

\* calls of ProcessRepresentationItem in one behaviour
MaxCalls == 4

\* the items: a bounding box, the extruded point, which gives no mesh, the
\* extruded square and a face set of one triangle
CachedItems ==
    {[kind |-> "boundingbox"],
     [kind |-> "swept", in |-> << <<0, 0, 0>> >>, area |-> FALSE],
     [kind |-> "swept", in |-> << <<0, 0, 0>>, <<One, 0, 0>>, <<One, One, 0>>, <<0, One, 0>> >>,
      area |-> TRUE],
     [kind |-> "faceset", faces |-> << << <<0, 0, 0>>, <<One, 0, 0>>, <<0, One, 0>> >> >>]}

\* conv with its mesh cache, a function from items to lists of indices, before
\* the first item
CachingConv(collect) ==
    [kind |-> "conv", collect |-> collect, collect_openings |-> <<>>, meshes |-> <<>>,
     mesh_indices |-> <<>>, ret |-> FALSE, geo |-> NoItem, before |-> <<>>, items |-> 0,
     cached_meshes |-> <<>>]

\* mutant: the cache is never asked
TryQueryMeshCache_Never(item, mesh_indices, conv) ==
    [found |-> FALSE, mesh_indices |-> mesh_indices]

\* TryQueryMeshCache: the result and mesh_indices after it
TryQueryMeshCache(item, mesh_indices, conv) ==
    IF item \in DOMAIN conv.cached_meshes
    THEN [found |-> TRUE, mesh_indices |-> mesh_indices \o conv.cached_meshes[item]]
    ELSE [found |-> FALSE, mesh_indices |-> mesh_indices]

\* conv.cached_meshes[&item] = mesh_indices
PopulateMeshCache(item, mesh_indices, conv) ==
    [conv EXCEPT !.cached_meshes = (item :> mesh_indices) @@ @]

\* behind ProcessGeometricItem: the cache is filled when the item was
\* processed and mesh_indices is not empty
Populated(item, conv) ==
    IF conv.ret /\ conv.mesh_indices # <<>>
    THEN PopulateMeshCache(item, conv.mesh_indices, conv) ELSE conv

\* conv after ProcessRepresentationItem(item, mesh_indices, conv), with the
\* mesh_indices of the caller and the value returned in it
ProcessRepresentationItemResults(item, mesh_indices, conv) ==
    IF TryQueryMeshCache(item, mesh_indices, conv).found
    THEN {[conv EXCEPT !.mesh_indices = TryQueryMeshCache(item, mesh_indices, conv).mesh_indices,
                       !.ret = TRUE]}
    ELSE {Populated(item, Finished([conv EXCEPT !.mesh_indices = mesh_indices], item, meshtmp)) :
             meshtmp \in Dispatched(item)}

InitCache ==
    /\ mode = "cache"
    /\ pc = "idle"
    /\ bbs = <<>>
    /\ mesh = EmptyMesh
    /\ wall = NoWall
    /\ solid \in {CachingConv(collect) : collect \in BOOLEAN}

\* the caller hands in the vector it has filled so far, or a new one for the
\* next product; before holds what the call found
ProcessRepresentationItem ==
    /\ mode = "cache" /\ solid.items < MaxCalls
    /\ \E item \in CachedItems, mesh_indices \in {solid.mesh_indices, <<>>} :
          \E conv \in ProcessRepresentationItemResults(item, mesh_indices, solid) :
              solid' = [conv EXCEPT !.geo = item, !.items = @ + 1,
                                    !.before = <<mesh_indices, solid.meshes,
                                                 solid.collect_openings, solid.cached_meshes>>]
    /\ pc' = "returned"
    /\ UNCHANGED <<mode, bbs, mesh, wall>>

NextCache == ProcessRepresentationItem

SpecCache == InitCache /\ [][NextCache]_vars

-----------------------------------------------------------------------------
(* Claims about the mesh cache *)

\* ProcessRepresentationItem has returned
ItemProcessed == mode = "cache" /\ pc = "returned"

\* the item of the call had a cache entry when the call began
WasCached == solid.geo \in DOMAIN solid.before[4]

\* the indices of the meshes the call added to conv.meshes
Generated == Tuple([k \in 1..(Len(solid.meshes) - Len(solid.before[2])) |->
                       Len(solid.before[2]) + k - 1])

\* C28: after ProcessRepresentationItem has processed an uncached item, the
\* cache entry stored for the item holds exactly the indices of the meshes
\* generated from that item, also when mesh_indices held indices of earlier
\* items already; and no cache entry is ever empty.
C28_EntryOfTheItemsOwnMeshes ==
    ItemProcessed =>
        /\ (~WasCached /\ solid.geo \in DOMAIN solid.cached_meshes)
              => solid.cached_meshes[solid.geo] = Generated
        /\ \A item \in DOMAIN solid.cached_meshes : solid.cached_meshes[item] # <<>>

\* what holds instead: the entry is the whole of mesh_indices as the call
\* leaves it, the indices handed in and behind them the generated ones, and it
\* is not empty
C28_EntryOfAllIndices ==
    ItemProcessed =>
        /\ (~WasCached /\ solid.geo \in DOMAIN solid.cached_meshes)
              => /\ solid.cached_meshes[solid.geo] = solid.before[1] \o Generated
                 /\ solid.mesh_indices = solid.before[1] \o Generated
        /\ \A item \in DOMAIN solid.cached_meshes : solid.cached_meshes[item] # <<>>

\* C29: a call of ProcessRepresentationItem for an item that has a cache entry
\* returns true, appends exactly the cached indices to mesh_indices and
\* changes neither conv.meshes, the cache nor conv.collect_openings; every
\* index it appends is a valid index into conv.meshes.
C29_CachedItemIsCopied ==
    (ItemProcessed /\ WasCached) =>
        /\ solid.ret
        /\ solid.mesh_indices = solid.before[1] \o solid.before[4][solid.geo]
        /\ solid.meshes = solid.before[2]
        /\ solid.collect_openings = solid.before[3]
        /\ solid.cached_meshes = solid.before[4]
        /\ \A k \in (Len(solid.before[1]) + 1)..Len(solid.mesh_indices) :
              solid.mesh_indices[k] \in 0..(Len(solid.meshes) - 1)

\* a cached item came again for a product that had indices already
C29_Witness ==
    /\ ItemProcessed /\ WasCached
    /\ solid.before[1] # <<>>
    /\ Len(solid.mesh_indices) > Len(solid.before[1])
    /\ Len(solid.meshes) = 2

-----------------------------------------------------------------------------
(* Specification of the normal lists: the three callers of GenerateOpenings
   make up the openings and the list of normals they hand over *)

Minus(a, b) == <<a[1] - b[1], a[2] - b[2], a[3] - b[3]>>

\* the cross product a ^ b
Cross(a, b) ==
    <<a[2] * b[3] - a[3] * b[2], a[3] * b[1] - a[1] * b[3], a[1] * b[2] - a[2] * b[1]>>

Sgn(a) == IF a > 0 THEN 1 ELSE IF a < 0 THEN -1 ELSE 0

\* Normalize() of a vector along an axis
Normalized(v) == <<Sgn(v[1]), Sgn(v[2]), Sgn(v[3])>>

\* the Newell normal of a polygon, its length the area (not normalized)
NewellNormal(face) ==
    <<NewellSum(face, 1, 2, 3), NewellSum(face, 1, 3, 1), NewellSum(face, 1, 1, 2)>>

\* the rectangle of a box of the plane z = 0, and the same put upright into
\* the plane x = 0
FlatRect(bb) == Tuple([k \in 1..4 |-> <<Rect(bb)[k][1], Rect(bb)[k][2], 0>>])
UprightRect(bb) == Tuple([k \in 1..4 |-> <<0, Rect(bb)[k][1], Rect(bb)[k][2]>>])

\* profile meshes of openings: without a vertex, a line, a window of the plane
\* z = 0 in either sense of rotation, and a window of the plane x = 0
OpeningMeshes ==
    {EmptyMesh,
     [verts |-> << <<0, 0, 0>>, <<One, 0, 0>> >>, vertcnt |-> <<2>>],
     OneFace(FlatRect(Box(1, 1, 3, 2))),
     OneFace(Reverse(FlatRect(Box(1, 1, 3, 2)))),
     OneFace(UprightRect(Box(1, 1, 3, 2)))}

\* ProcessExtrudedAreaSolid: a normal for every opening of conv.apply_openings
OpeningNormal(bounds) ==
    IF Len(bounds.verts) <= 2 THEN <<0, 0, 0>>
    ELSE Normalized(Cross(Minus(bounds.verts[3], bounds.verts[1]),
                          Minus(bounds.verts[2], bounds.verts[1])))

\* the bounds of a face: the outer square, two holes in it and a bound of
\* three points on a line
BoundPolygons ==
    {FlatRect(Box(0, 0, GridN, GridN)), FlatRect(Box(1, 1, 3, 2)),
     Reverse(FlatRect(Box(2, 3, 4, 4))),
     << <<2, 2, 0>>, <<4, 4, 0>>, <<6, 6, 0>> >>}

\* the meshes ProcessPolygonBoundaries gets for a face of 2 or 3 bounds, one
\* of them with an area at least
RECURSIVE MeshOf(_, _)
MeshOf(polygons, k) ==
    IF k > Len(polygons) THEN EmptyMesh
    ELSE AppendMesh(OneFace(polygons[k]), MeshOf(polygons, k + 1))

BoundMeshes ==
    {MeshOf(polygons, 1) :
        polygons \in {p \in UNION {[1..n -> BoundPolygons] : n \in 2..MaxFaces + 1} :
                         \E k \in DOMAIN p : ~Degenerate(p[k])}}

SquareLength3(n) == n[1] * n[1] + n[2] * n[2] + n[3] * n[3]

\* the polygon with the largest area, the first of them; master_bounds counts
\* from 1, 0 is the (size_t)-1 of the source
OuterPolygon(normals, master_bounds) ==
    IF master_bounds # 0 THEN master_bounds
    ELSE CHOOSE k \in 1..Len(normals) :
             /\ \A j \in 1..Len(normals) : SquareLength3(normals[j]) <= SquareLength3(normals[k])
             /\ \A j \in 1..(k - 1) : SquareLength3(normals[j]) < SquareLength3(normals[k])

\* the fake openings: every bound but the outer one and the degenerate ones
RECURSIVE FakeOpenings(_, _, _, _)
FakeOpenings(inmesh, normals, outer, k) ==
    IF k > Len(inmesh.vertcnt) THEN <<>>
    ELSE IF k = outer \/ SquareLength3(normals[k]) = 0
    THEN FakeOpenings(inmesh, normals, outer, k + 1)
    ELSE <<OneFace(FaceVerts(inmesh, k))>> \o FakeOpenings(inmesh, normals, outer, k + 1)

\* what a caller hands to GenerateOpenings
Call(site, openings, nors) == [kind |-> site, openings |-> openings, nors |-> nors]

\* ProcessPolygonBoundaries for more than one bound: normals holds the Newell
\* normal of every bound of the face
PolygonBoundariesCall(inmesh, master_bounds) ==
    Call("boundaries",
         FakeOpenings(inmesh, Tuple([k \in 1..Len(inmesh.vertcnt) |-> NewellNormal(FaceVerts(inmesh, k))]),
                      OuterPolygon(Tuple([k \in 1..Len(inmesh.vertcnt) |->
                                             NewellNormal(FaceVerts(inmesh, k))]), master_bounds), 1),
         Tuple([k \in 1..Len(inmesh.vertcnt) |-> NewellNormal(FaceVerts(inmesh, k))]))

\* ProcessExtrudedAreaSolid with conv.apply_openings
ExtrusionCall(apply_openings) ==
    Call("extrusion", apply_openings,
         Tuple([c \in 1..Len(apply_openings) |-> OpeningNormal(apply_openings[c])]))

\* ProcessBooleanExtrudedAreaSolidDifference: the mesh of the second operand
\* is the only opening, the list of normals is the vector (1,0,0)
ExtrudedDifferenceCall(meshtmp) == Call("difference", <<meshtmp>>, << <<1, 0, 0>> >>)

InitNormals ==
    /\ mode = "normals"
    /\ pc = "idle"
    /\ bbs = <<>>
    /\ mesh = EmptyMesh
    /\ wall = NoWall
    /\ solid = NoSolid

CallFromExtrusion ==
    /\ mode = "normals" /\ pc = "idle"
    /\ \E apply_openings \in UNION {[1..n -> OpeningMeshes] : n \in 1..MaxSides} :
          solid' = ExtrusionCall(apply_openings)
    /\ pc' = "called"
    /\ UNCHANGED <<mode, bbs, mesh, wall>>

CallFromPolygonBoundaries ==
    /\ mode = "normals" /\ pc = "idle"
    /\ \E inmesh \in BoundMeshes : \E master_bounds \in 0..Len(inmesh.vertcnt) :
          /\ solid' = PolygonBoundariesCall(inmesh, master_bounds)
          /\ mesh' = inmesh
    /\ pc' = "called"
    /\ UNCHANGED <<mode, bbs, wall>>

CallFromExtrudedDifference ==
    /\ mode = "normals" /\ pc = "idle"
    /\ \E in \in ExtrudeProfiles :
          solid' = ExtrudedDifferenceCall(ExtrudedSolid(in, Len(in) > 2))
    /\ pc' = "called"
    /\ UNCHANGED <<mode, bbs, mesh, wall>>

NextNormals == CallFromExtrusion \/ CallFromPolygonBoundaries \/ CallFromExtrudedDifference

SpecNormals == InitNormals /\ [][NextNormals]_vars

-----------------------------------------------------------------------------
(* Claims about the normals of the openings *)

GenerateOpeningsCalled == mode = "normals" /\ pc = "called"

\* n has the direction of the normal of the first face of the opening, in
\* either sense
NormalOf(n, opening) ==
    /\ n # <<0, 0, 0>>
    /\ Cross(n, NewellNormal(FaceVerts(opening, 1))) = <<0, 0, 0>>

\* the list has an entry for every opening, the normal of its face where the
\* opening has one
OwnNormals(openings, nors) ==
    /\ Len(nors) = Len(openings)
    /\ \A c \in 1..Len(openings) :
          (Len(openings[c].verts) > 2 /\ ~Degenerate(FaceVerts(openings[c], 1)))
              => NormalOf(nors[c], openings[c])

\* C30: at every call of GenerateOpenings, from the linear extrusion, from
\* ProcessPolygonBoundaries and from the extruded-solid boolean difference,
\* the normal list has one entry per opening and entry i is the face normal of
\* opening i, so that the Poly2Tri fallback pairs every opening with its own
\* normal.
C30_NormalOfEveryOpening ==
    GenerateOpeningsCalled => OwnNormals(solid.openings, solid.nors)

\* the same for the calls from the linear extrusion alone
C30_NormalOfEveryOpeningOfAnExtrusion ==
    (GenerateOpeningsCalled /\ solid.kind = "extrusion")
        => OwnNormals(solid.openings, solid.nors)

=============================================================================
